---- MODULE Spec2Model ----
(***************************************************************************)
(* A model of the sqldepends analysis tools:                               *)
(*   - quick-sql-analyzer.py: the rule registry, the per-line scan of one  *)
(*     file (analyze_file), the directory run (analyze_directory) and the  *)
(*     SQL and JSON emitters;                                              *)
(*   - sql_analyzer.py: Config, DatabaseManager, the arguments and the     *)
(*     file walk of main.                                                  *)
(* Text is modelled as sequences of one-character strings, so that the     *)
(* regular expressions, str.split, str.strip, slicing and str.endswith     *)
(* are computed character by character as the Python code computes them.   *)
(***************************************************************************)
EXTENDS Integers, Sequences, FiniteSets, TLC

(***************************************************************************)
(* Characters and character classes (Python str / re semantics).           *)
(***************************************************************************)
UpperLetters ==
  {"A", "B", "C", "D", "E", "F", "G", "H", "I", "J", "K", "L", "M", "N", "O", "P", "Q", "R", "S", "T", "U", "V", "W", "X", "Y", "Z"}

LowerLetters ==
  {"a", "b", "c", "d", "e", "f", "g", "h", "i", "j", "k", "l", "m", "n", "o", "p", "q", "r", "s", "t", "u", "v", "w", "x", "y", "z"}

Digits == {"0", "1", "2", "3", "4", "5", "6", "7", "8", "9"}

\* str.lower on one character: the map of the upper-case letters.
LowerMap ==
  ("A" :> "a") @@ ("B" :> "b") @@ ("C" :> "c") @@ ("D" :> "d") @@ ("E" :> "e") @@ ("F" :> "f") @@
  ("G" :> "g") @@ ("H" :> "h") @@ ("I" :> "i") @@ ("J" :> "j") @@ ("K" :> "k") @@ ("L" :> "l") @@
  ("M" :> "m") @@ ("N" :> "n") @@ ("O" :> "o") @@ ("P" :> "p") @@ ("Q" :> "q") @@ ("R" :> "r") @@
  ("S" :> "s") @@ ("T" :> "t") @@ ("U" :> "u") @@ ("V" :> "v") @@ ("W" :> "w") @@ ("X" :> "x") @@
  ("Y" :> "y") @@ ("Z" :> "z")

Lower(c) == IF c \in UpperLetters THEN LowerMap[c] ELSE c

\* \s of the re module, and the characters str.strip() removes.
SpaceChars == {" ", "\t", "\n", "\r", "\f"}

\* \w of the re module.
WordChars == UpperLetters \cup LowerLetters \cup Digits \cup {"_"}


(***************************************************************************)
(* Regular expressions.  Every pattern of the registry is an alternation   *)
(* of sequences of items; an item is one character class with a            *)
(* quantifier:  k: "lit" (the character c, compared ignoring case),        *)
(* "space" (\s), "word" (\w), "any" (the dot);  q: "one", "plus" (greedy   *)
(* one-or-more), "star" (greedy zero-or-more), "lazy" (lazy zero-or-more). *)
(***************************************************************************)
Lit(s) == [i \in 1..Len(s) |-> [k |-> "lit", c |-> s[i], q |-> "one"]]

SpacePlus == << [k |-> "space", c |-> "", q |-> "plus"] >>

SpaceStar == << [k |-> "space", c |-> "", q |-> "star"] >>

WordPlus == << [k |-> "word", c |-> "", q |-> "plus"] >>

AnyLazy == << [k |-> "any", c |-> "", q |-> "lazy"] >>

\* A faulty variant of CharMatches, without re.IGNORECASE: a literal is
\* compared as written.  C9 is tested against it.
CharMatchesCase(it, ch) ==
  CASE it.k = "lit"   -> ch = it.c
    [] it.k = "space" -> ch \in SpaceChars
    [] it.k = "word"  -> ch \in WordChars
    [] it.k = "any"   -> ch # "\n"

\* One character against one item's class, under re.IGNORECASE.
CharMatches(it, ch) ==
  CASE it.k = "lit"   -> Lower(ch) = Lower(it.c)
    [] it.k = "space" -> ch \in SpaceChars
    [] it.k = "word"  -> ch \in WordChars
    [] it.k = "any"   -> ch # "\n"

Least(S) == CHOOSE a \in S : \A b \in S : a <= b

Greatest(S) == CHOOSE a \in S : \A b \in S : a >= b

\* The number of consecutive characters of line after offset pos that the
\* item's class accepts.
RunLen(it, line, pos) ==
  LET stops == { i \in (pos + 1)..Len(line) : ~CharMatches(it, line[i]) } IN
    IF stops = {} THEN Len(line) - pos ELSE Least(stops) - pos - 1

\* The engine tries the candidates of dom in its order of preference and
\* keeps the first whose continuation end[m] is a match (>= 0): the
\* greatest for a greedy repetition, the least for a lazy one and for the
\* search of the next start.
LastThatMatches(end, dom) ==
  LET ok == { m \in dom : end[m] >= 0 } IN
    IF ok = {} THEN -1 ELSE Greatest(ok)

FirstThatMatches(end, dom) ==
  LET ok == { m \in dom : end[m] >= 0 } IN
    IF ok = {} THEN -1 ELSE Least(ok)

\* The end offset reached from the candidate m, -1 when there is none.
EndAt(end, m) == IF m < 0 THEN -1 ELSE end[m]

\* The backtracking matcher of re: the items k.. of one alternative matched
\* at offset pos; the end offset of the first match in the engine's order
\* of preference (greedy: longest repetition first, lazy: shortest first),
\* -1 when there is none.
RECURSIVE MatchFrom(_, _, _, _), TryGreedy(_, _, _, _, _, _), TryLazy(_, _, _, _, _, _)
MatchFrom(alt, k, line, pos) ==
  IF k > Len(alt) THEN pos
  ELSE LET it == alt[k] IN
    CASE it.q = "one"  -> IF pos < Len(line) /\ CharMatches(it, line[pos + 1])
                            THEN MatchFrom(alt, k + 1, line, pos + 1)
                            ELSE -1
      [] it.q = "lazy" -> TryLazy(alt, k, line, pos, 0, RunLen(it, line, pos))
      [] it.q \in {"plus", "star"} ->
           TryGreedy(alt, k, line, pos, RunLen(it, line, pos),
                     IF it.q = "plus" THEN 1 ELSE 0)

ContinueLast(end) == EndAt(end, LastThatMatches(end, DOMAIN end))

ContinueFirst(end) == EndAt(end, FirstThatMatches(end, DOMAIN end))

TryGreedy(alt, k, line, pos, n, least) ==
  ContinueLast([m \in least..n |-> MatchFrom(alt, k + 1, line, pos + m)])

TryLazy(alt, k, line, pos, n, most) ==
  ContinueFirst([m \in n..most |-> MatchFrom(alt, k + 1, line, pos + m)])

\* A pattern at offset pos: its alternatives in order, the first that
\* matches wins.
MatchAlts(alts, a, line, pos) ==
  ContinueFirst([b \in a..Len(alts) |-> MatchFrom(alts[b], 1, line, pos)])

\* The match the scanner finds next from offset pos: the one of the least
\* start offset at which the pattern matches; none is << >>.
MatchAt(end, s) == IF s < 0 THEN << >> ELSE << [s |-> s, e |-> end[s]] >>

FirstMatch(end) == MatchAt(end, FirstThatMatches(end, DOMAIN end))

Search(alts, line, pos) ==
  FirstMatch([p \in pos..Len(line) |-> MatchAlts(alts, 1, line, p)])

\* A faulty variant of FindIter, re.search in place of re.finditer: the
\* first match only.  C10 is tested against it.
FindFirst(alts, line, pos) == Search(alts, line, pos)

\* re.finditer(pattern, line, re.IGNORECASE): the matches [s, e) found left
\* to right, each search starting where the previous match ended.
RECURSIVE FindIter(_, _, _), Following(_, _, _)
FindIter(alts, line, pos) == Following(alts, line, Search(alts, line, pos))

\* The matches from the one found on: the next search starts where it
\* ended, one further after an empty match.
Following(alts, line, found) ==
  IF found = << >> THEN << >>
  ELSE found \o FindIter(alts, line,
                         IF found[1].e > found[1].s THEN found[1].e ELSE found[1].s + 1)

\* match.group(): the matched text.
Group(line, m) == SubSeq(line, m.s + 1, m.e)

(***************************************************************************)
(* The rule registry of QuickSQLAnalyzer.__init__, in registration order.  *)
(***************************************************************************)
sql_patterns ==
  << [name |-> "SELECT",
      alts |-> << Lit(<<"S","E","L","E","C","T">>)
               \o SpacePlus
               \o AnyLazy
               \o SpacePlus
               \o Lit(<<"F","R","O","M">>)
               \o SpacePlus
               \o WordPlus >>],
     [name |-> "INSERT",
      alts |-> << Lit(<<"I","N","S","E","R","T">>)
               \o SpacePlus
               \o Lit(<<"I","N","T","O">>)
               \o SpacePlus
               \o WordPlus >>],
     [name |-> "UPDATE",
      alts |-> << Lit(<<"U","P","D","A","T","E">>)
               \o SpacePlus
               \o WordPlus
               \o SpacePlus
               \o Lit(<<"S","E","T">>) >>],
     [name |-> "DELETE",
      alts |-> << Lit(<<"D","E","L","E","T","E">>)
               \o SpacePlus
               \o Lit(<<"F","R","O","M">>)
               \o SpacePlus
               \o WordPlus >>],
     [name |-> "CREATE_TABLE",
      alts |-> << Lit(<<"C","R","E","A","T","E">>)
               \o SpacePlus
               \o Lit(<<"T","A","B","L","E">>)
               \o SpacePlus
               \o WordPlus >>],
     [name |-> "CREATE_VIEW",
      alts |-> << Lit(<<"C","R","E","A","T","E">>)
               \o SpacePlus
               \o Lit(<<"V","I","E","W">>)
               \o SpacePlus
               \o WordPlus >>],
     [name |-> "CREATE_PROC",
      alts |-> << Lit(<<"C","R","E","A","T","E">>)
               \o SpacePlus
               \o Lit(<<"P","R","O","C","E","D","U","R","E">>)
               \o SpacePlus
               \o WordPlus >>],
     [name |-> "STORED_PROC_CALL",
      alts |-> << Lit(<<"E","X","E","C">>)
               \o SpacePlus
               \o WordPlus,
             Lit(<<"E","X","E","C","U","T","E">>)
               \o SpacePlus
               \o WordPlus >>] >>

ef_patterns ==
  << [name |-> "DbContext",
      alts |-> << Lit(<<":">>)
               \o SpaceStar
               \o Lit(<<"D","b","C","o","n","t","e","x","t">>),
             Lit(<<"D","b","C","o","n","t","e","x","t">>)
               \o SpaceStar
               \o Lit(<<"{">>) >>],
     [name |-> "DbSet",
      alts |-> << Lit(<<"D","b","S","e","t","<">>)
               \o WordPlus
               \o Lit(<<">">>) >>],
     [name |-> "FromSqlRaw",
      alts |-> << Lit(<<"F","r","o","m","S","q","l","R","a","w">>)
               \o SpaceStar
               \o Lit(<<"(">>) >>],
     [name |-> "ExecuteSqlRaw",
      alts |-> << Lit(<<"E","x","e","c","u","t","e","S","q","l","R","a","w">>)
               \o SpaceStar
               \o Lit(<<"(">>) >>],
     [name |-> "FromSqlInterpolated",
      alts |-> << Lit(<<"F","r","o","m","S","q","l","I","n","t","e","r","p","o","l","a","t","e","d">>)
               \o SpaceStar
               \o Lit(<<"(">>) >>],
     [name |-> "ExecuteSqlInterpolated",
      alts |-> << Lit(<<"E","x","e","c","u","t","e","S","q","l","I","n","t","e","r","p","o","l","a","t","e","d">>)
               \o SpaceStar
               \o Lit(<<"(">>) >>],
     [name |-> "Database.ExecuteSqlRaw",
      alts |-> << Lit(<<"D","a","t","a","b","a","s","e",".","E","x","e","c","u","t","e","S","q","l","R","a","w">>) >>] >>

ado_patterns ==
  << [name |-> "SqlConnection",
      alts |-> << Lit(<<"S","q","l","C","o","n","n","e","c","t","i","o","n">>)
               \o SpaceStar
               \o Lit(<<"(">>) >>],
     [name |-> "SqlCommand",
      alts |-> << Lit(<<"S","q","l","C","o","m","m","a","n","d">>)
               \o SpaceStar
               \o Lit(<<"(">>) >>],
     [name |-> "SqlDataAdapter",
      alts |-> << Lit(<<"S","q","l","D","a","t","a","A","d","a","p","t","e","r">>)
               \o SpaceStar
               \o Lit(<<"(">>) >>],
     [name |-> "CommandText",
      alts |-> << Lit(<<"C","o","m","m","a","n","d","T","e","x","t">>)
               \o SpaceStar
               \o Lit(<<"=">>) >>],
     [name |-> "SqlParameter",
      alts |-> << Lit(<<"S","q","l","P","a","r","a","m","e","t","e","r">>)
               \o SpaceStar
               \o Lit(<<"(">>) >>],
     [name |-> "ConnectionString",
      alts |-> << Lit(<<"C","o","n","n","e","c","t","i","o","n","S","t","r","i","n","g">>)
               \o SpaceStar
               \o Lit(<<"=">>),
             Lit(<<"c","o","n","n","e","c","t","i","o","n","S","t","r","i","n","g">>) >>] >>

\* The fixed confidence of each category's findings.
SqlConfidence == 90

EfConfidence == 95

AdoConfidence == 85

(***************************************************************************)
(* QuickSQLAnalyzer.analyze_file.                                          *)
(***************************************************************************)
\* A byte that is no valid UTF-8.
InvalidByte == "0xFF"

\* The decoding of open(..., encoding='utf-8', errors='ignore'): the bytes
\* that do not decode are dropped.
Decode(bytes) == SelectSeq(bytes, LAMBDA b : b # InvalidByte)

\* The newline translation of a file opened in text mode (newline=None):
\* "\r\n" and "\r" are read as "\n".
TranslateNewlines(s) ==
  LET kept == SelectSeq([i \in 1..Len(s) |-> i],
                        LAMBDA i : ~(s[i] = "\n" /\ i > 1 /\ s[i - 1] = "\r"))
  IN [k \in 1..Len(kept) |-> IF s[kept[k]] = "\r" THEN "\n" ELSE s[kept[k]]]

\* content = f.read()
ReadText(bytes) == TranslateNewlines(Decode(bytes))

\* content.split('\n')
RECURSIVE SplitFrom(_, _)
SplitFrom(content, start) ==
  LET seps == { i \in start..Len(content) : content[i] = "\n" } IN
    IF seps = {} THEN << SubSeq(content, start, Len(content)) >>
    ELSE LET i == CHOOSE a \in seps : \A b \in seps : a <= b IN
      << SubSeq(content, start, i - 1) >> \o SplitFrom(content, i + 1)

SplitLines(content) == SplitFrom(content, 1)

\* line.strip()
RECURSIVE LStrip(_), RStrip(_)
LStrip(s) == IF s # << >> /\ Head(s) \in SpaceChars THEN LStrip(Tail(s)) ELSE s

RStrip(s) ==
  IF s # << >> /\ s[Len(s)] \in SpaceChars
    THEN RStrip(SubSeq(s, 1, Len(s) - 1))
    ELSE s

Strip(s) == RStrip(LStrip(s))

\* A faulty variant of LineNumber, enumerate(lines) counting from 0.  C7 is
\* tested against it.
LineNumberFromZero(i) == i - 1

\* enumerate(lines, 1): the number of the i-th line.
LineNumber(i) == i

\* The flags of re.finditer: re.IGNORECASE is part of CharMatches.
Matches(pattern, line) == FindIter(pattern.alts, line, 0)

\* A faulty variant of MakeFinding whose confidence depends on the matched
\* text: ten less for a match shorter than 12 characters.  C8 is tested
\* against it.
MakeFindingScored(file, line_num, type, pattern_name, line, m, confidence) ==
  [file       |-> file,
   line       |-> line_num,
   type       |-> type,
   pattern    |-> pattern_name,
   text       |-> Group(line, m),
   context    |-> Strip(line),
   confidence |-> IF m.e - m.s < 12 THEN confidence - 10 ELSE confidence]

\* The findings.append({...}) of one match.
MakeFinding(file, line_num, type, pattern_name, line, m, confidence) ==
  [file       |-> file,
   line       |-> line_num,
   type       |-> type,
   pattern    |-> pattern_name,
   text       |-> Group(line, m),
   context    |-> Strip(line),
   confidence |-> confidence]

\* for match in matches: findings.append({...})
MatchFindings(file, line_num, type, pattern_name, line, matches, confidence) ==
  [j \in 1..Len(matches) |->
     MakeFinding(file, line_num, type, pattern_name, line, matches[j], confidence)]

\* A faulty variant of CategoryFindings in which the first rule of a
\* category that matches the line ends the loop over the category's rules.
\* C11 is tested against it.
RECURSIVE CategoryFindingsFirstRule(_, _, _, _, _, _, _)
CategoryFindingsFirstRule(file, line_num, line, patterns, r, type, confidence) ==
  IF r > Len(patterns) THEN << >>
  ELSE IF Matches(patterns[r], line) # << >>
    THEN MatchFindings(file, line_num, type, patterns[r].name, line,
                       Matches(patterns[r], line), confidence)
    ELSE CategoryFindingsFirstRule(file, line_num, line, patterns, r + 1, type, confidence)

\* for pattern_name, pattern in patterns.items(): for match in matches: ...
RECURSIVE CategoryFindings(_, _, _, _, _, _, _)
CategoryFindings(file, line_num, line, patterns, r, type, confidence) ==
  IF r > Len(patterns) THEN << >>
  ELSE MatchFindings(file, line_num, type, patterns[r].name, line,
                     Matches(patterns[r], line), confidence)
    \o CategoryFindings(file, line_num, line, patterns, r + 1, type, confidence)

\* QuickSQLAnalyzer(): the instance __init__ leaves, the three registries
\* and the results list.
QuickSQLAnalyzer ==
  [sql_patterns |-> sql_patterns,
   ef_patterns  |-> ef_patterns,
   ado_patterns |-> ado_patterns,
   results      |-> << >>]

\* The three loops of the body of the loop over the lines, in their order:
\* the registry each goes over, the type and the confidence it writes.
CategoryLoops(self) ==
  << [patterns |-> self.sql_patterns, type |-> "SQL",             confidence |-> SqlConfidence],
     [patterns |-> self.ef_patterns,  type |-> "EntityFramework", confidence |-> EfConfidence],
     [patterns |-> self.ado_patterns, type |-> "ADO.NET",         confidence |-> AdoConfidence] >>

InOrder(by) == by[1] \o by[2] \o by[3]

\* The body of the loop over the lines: SQL, then Entity Framework, then
\* ADO.NET, each over the registry of the instance.
LineFindings(self, file, line_num, line) ==
  InOrder([c \in 1..3 |->
             CategoryFindings(file, line_num, line, CategoryLoops(self)[c].patterns, 1,
                              CategoryLoops(self)[c].type,
                              CategoryLoops(self)[c].confidence)])

RECURSIVE LinesFindings(_, _, _, _)
LinesFindings(self, file, lines, i) ==
  IF i > Len(lines) THEN << >>
  ELSE LineFindings(self, file, LineNumber(i), lines[i])
         \o LinesFindings(self, file, lines, i + 1)


\* A pattern string re cannot compile: re.finditer raises re.error when it
\* is first used.
IsMalformed(pattern) == "error" \in DOMAIN pattern

HasMalformed(patterns) == \E k \in 1..Len(patterns) : IsMalformed(patterns[k])

Compiles(self) ==
  /\ ~HasMalformed(self.sql_patterns)
  /\ ~HasMalformed(self.ef_patterns)
  /\ ~HasMalformed(self.ado_patterns)

\* The rules of one category that the loop reaches before re.error.
BeforeError(patterns) ==
  LET bad == { k \in 1..Len(patterns) : IsMalformed(patterns[k]) } IN
    IF bad = {} THEN patterns
    ELSE SubSeq(patterns, 1, (CHOOSE a \in bad : \A b \in bad : a <= b) - 1)

\* The rules the first line is matched against before re.error is raised:
\* those registered before the first malformed one, in the order of the
\* three loops.
UntilError(self) ==
  [self EXCEPT
     !.sql_patterns = BeforeError(@),
     !.ef_patterns  = IF HasMalformed(self.sql_patterns) THEN << >> ELSE BeforeError(@),
     !.ado_patterns = IF HasMalformed(self.sql_patterns) \/ HasMalformed(self.ef_patterns)
                        THEN << >> ELSE BeforeError(@)]

\* analyze_file on a file that opens and reads: the findings appended when
\* the try block is left.  With patterns that all compile these are the
\* findings of every line; otherwise re.error is raised on the first line
\* and they are the findings of that line for the rules before the
\* malformed one.
ScanContent(self, file, bytes) ==
  LET lines == SplitLines(ReadText(bytes)) IN
    LinesFindings(UntilError(self), file,
                  IF Compiles(self) THEN lines ELSE SubSeq(lines, 1, 1), 1)

(***************************************************************************)
(* The file system.  A file is the directory names from the root down to   *)
(* it, its name and its content; a tree is the sequence of its files in    *)
(* the order a top-down traversal (Path.rglob, os.walk) lists them.        *)
(***************************************************************************)
File(dir, name, content) == [dir |-> dir, name |-> name, content |-> content]

\* The --directory argument.
RootDir == <<"p","r","o","j">>

RECURSIVE JoinDir(_)
JoinDir(dir) ==
  IF dir = << >> THEN << >> ELSE Head(dir) \o <<"/">> \o JoinDir(Tail(dir))

\* str(file_path) of a path found under the root.
PathStr(f) == RootDir \o <<"/">> \o JoinDir(f.dir) \o f.name

\* os.path.getsize: the content is ASCII, one byte per character.
FileSize(f) == Len(f.content)

IsPrefix(p, d) == Len(p) <= Len(d) /\ SubSeq(d, 1, Len(p)) = p

\* A top-down traversal lists a directory's own files before the files of
\* its subdirectories, and the files of one subtree together.
ValidListing(l) ==
  /\ \A i, j \in 1..Len(l) :
       i < j => /\ <<l[i].dir, l[i].name>> # <<l[j].dir, l[j].name>>
                /\ ~(IsPrefix(l[j].dir, l[i].dir) /\ l[j].dir # l[i].dir)
  /\ \A i, j, k \in 1..Len(l) :
       i < j /\ j < k =>
         \A n \in 0..Len(l[i].dir) :
           IsPrefix(SubSeq(l[i].dir, 1, n), l[k].dir)
             => IsPrefix(SubSeq(l[i].dir, 1, n), l[j].dir)

\* fnmatch.fnmatchcase: a pattern of literal characters and "*".
RECURSIVE FnMatch(_, _)
FnMatch(s, p) ==
  IF p = << >> THEN s = << >>
  ELSE IF Head(p) = "*"
    THEN FnMatch(s, Tail(p)) \/ (s # << >> /\ FnMatch(Tail(s), p))
    ELSE s # << >> /\ Head(s) = Head(p) /\ FnMatch(Tail(s), Tail(p))

(***************************************************************************)
(* Bounds and the inputs of the model.                                     *)
(***************************************************************************)
\* The most lines of a file's content.
MaxLines == 2

\* The most files of a directory tree.
MaxFiles == 2

Rep(c, n) == [i \in 1..n |-> c]

\* select a from t
L_select == <<"s","e","l","e","c","t"," ","a"," ","f","r","o","m"," ","t">>

\* "  EXEC p1 exec  p2<TAB>": two matches of one rule, blanks at both ends.
L_exec ==
  <<" "," ","E","X","E","C"," ","p","1"," ","e","x","e","c"," "," ","p","2","\t">>

\* SqlCommand("insert into t"): a SQL rule and an ADO.NET rule on one line.
L_command ==
  <<"S","q","l","C","o","m","m","a","n","d","(","\"","i","n","s","e","r","t",
    " ","i","n","t","o"," ","t","\"",")">>

\* db.Database.ExecuteSqlRaw (q): two Entity Framework rules, overlapping.
L_ef ==
  <<"d","b",".","D","a","t","a","b","a","s","e",".","E","x","e","c","u","t",
    "e","S","q","l","R","a","w"," ","(","q",")">>

\* int x;<CR>: followed by "\n" it ends a line as "\r\n", at the end of
\* the file as "\r".
L_plain == <<"i","n","t"," ","x",";","\r">>

\* SELECT a..a FROM t, 50 characters: a match of exactly 50 characters.
L_fifty ==
  <<"S","E","L","E","C","T"," ">> \o Rep("a", 36) \o <<" ","F","R","O","M"," ","t">>

\* EXEC p SELECT a..a FROM t, 117 characters: a match of 110 characters and
\* a short one, on a line longer than 100 characters.
L_long ==
  <<"E","X","E","C"," ","p"," ","S","E","L","E","C","T"," ">> \o Rep("a", 96)
    \o <<" ","F","R","O","M"," ","t">>

\* select 'x' from t: a statement that holds a string literal.
L_quote ==
  <<"s","e","l","e","c","t"," ","'","x","'"," ","f","r","o","m"," ","t">>

LinePool == << L_select, L_exec, L_command, L_ef, L_plain, L_fifty, L_long >>

\* The lines joined by "\n".
RECURSIVE JoinLines(_)
JoinLines(ls) ==
  IF ls = << >> THEN << >>
  ELSE IF Len(ls) = 1 THEN LinePool[ls[1]]
  ELSE LinePool[ls[1]] \o <<"\n">> \o JoinLines(Tail(ls))

\* Every content of at most MaxLines lines of the pool; the empty content
\* is the 0-byte file.
Contents ==
  { JoinLines(ls) : ls \in UNION { [1..n -> 1..Len(LinePool)] : n \in 0..MaxLines } }

N_a_cs == <<"a",".","c","s">>

N_b_cs == <<"b",".","c","s">>

N_B_CS == <<"B",".","C","S">>

N_dot_cs == <<".","c","s">>

N_designer == <<"x",".","d","e","s","i","g","n","e","r",".","c","s">>

N_txt == <<"n",".","t","x","t">>

N_docs == <<"d","o","c","s">>

D_bin == <<"b","i","n">>

D_src == <<"s","r","c">>

D_obj == <<"o","b","j">>

C_two == L_command \o <<"\n">> \o L_exec

\* The same statement on two lines.
C_twice == L_select \o <<"\n">> \o L_select

\* The files of the trees of several files.
TreeFiles ==
  { File(p[1], p[2], c) :
      p \in { << << >>, N_a_cs >>, << <<D_bin>>, N_a_cs >>,
              << <<D_src, D_obj>>, N_b_cs >>, << << >>, N_B_CS >>,
              << << >>, N_dot_cs >> },
      c \in { C_two, C_twice } }

\* The trees the quick analyzer is run on: one file of any content, or up
\* to MaxFiles files of the pool.
Trees ==
  { << File(<< >>, N_a_cs, c) >> : c \in Contents }
  \cup { l \in UNION { [1..n -> TreeFiles] : n \in 0..MaxFiles } : ValidListing(l) }

\* o'b.cs
N_quote == <<"o","'","b",".","c","s">>

\* The trees of one file whose name or lines may hold a single quote.
QuoteTrees ==
  { << File(<< >>, n, c) >> :
      n \in { N_a_cs, N_quote },
      c \in { L_quote, L_select, L_command, L_quote \o <<"\n">> \o L_command,
               L_command \o <<"\n">> \o L_quote, L_select \o <<"\n">> \o L_command } }

\* The values datetime.now() may return.
Clock == {"t1", "t2"}

(***************************************************************************)
(* State.                                                                  *)
(***************************************************************************)
VARIABLES
  fs,            \* the directory tree under the root
  pc,            \* the position of main
  cs_files,      \* analyze_directory: the files rglob found
  idx,           \* analyze_directory: the index of the next file of the loop
  all_findings,  \* analyze_directory: the findings collected so far
  stdout,        \* the messages printed so far
  output,        \* the artifact written to the output file
  exit_status,   \* the status the process exited with, -1 while it runs
  config,        \* sql_analyzer: the Config of the run
  walked,        \* sql_analyzer: the files the walk has listed, and whether it counted each
  files_found,   \* sql_analyzer: the counter of the walk
  env,           \* what the run is given: the state of the root directory, the --config file
  analyzer,      \* the QuickSQLAnalyzer instance: its registries and results
  opened,        \* history: for each file analyzed so far, whether open() and read() succeeded
  rescan,        \* the result of a second analyze_file call on a file, k = 0 when none was made
  first_run,     \* history: the result of the first of two runs over the tree
  db_manager,    \* sql_analyzer: the DatabaseManager of main and what it executed
  file_handler   \* sql_analyzer: the file --log-file names, "absent" until it is opened

vars ==
  << fs, pc, cs_files, idx, all_findings, stdout, output, exit_status,
     config, walked, files_found, env, analyzer, opened, rescan, first_run,
     db_manager, file_handler >>

Message(msg, file, n) == [msg |-> msg, file |-> file, n |-> n]

\* print(f"Error analyzing {file_path}: {e}"), e the exception caught.
ErrorAnalyzing(file, e) == [msg |-> "Error analyzing", file |-> file, n |-> 0, e |-> e]

NoOutput == [format |-> "none"]

(***************************************************************************)
(* quick-sql-analyzer.py                                                   *)
(***************************************************************************)
\* The pattern of dir_path.rglob('*.cs').
CsPattern == <<"*",".","c","s">>

\* list(dir_path.rglob('*.cs')): the files of the tree whose name matches,
\* in traversal order.
RGlob(tree, pattern) == SelectSeq(tree, LAMBDA f : FnMatch(f.name, pattern))

\* A faulty variant of analyze_file that collects the findings in
\* self.results and returns that list.  C16 is tested against it.
analyze_file_accumulating(self, f, opens) ==
  LET found == IF opens THEN ScanContent(self, PathStr(f), f.content) ELSE << >>
  IN  [findings |-> self.results \o found,
       printed  |-> IF opens /\ Compiles(self)
                      THEN << >>
                      ELSE << ErrorAnalyzing(PathStr(f), IF opens THEN "re.error" ELSE "OSError") >>,
       self     |-> [self EXCEPT !.results = @ \o found]]

\* analyze_file: the findings returned, the messages printed and the
\* instance after the call (no statement of the method assigns to self);
\* opens is whether open() and read() succeed.  An exception leaves the
\* try block with the findings appended so far: none when the file does not
\* open, those of the first line's rules before the malformed one when
\* re.finditer raises re.error.
analyze_file(self, f, opens) ==
  [findings |-> IF opens THEN ScanContent(self, PathStr(f), f.content) ELSE << >>,
   printed  |-> IF opens /\ Compiles(self)
                  THEN << >>
                  ELSE << ErrorAnalyzing(PathStr(f), IF opens THEN "re.error" ELSE "OSError") >>,
   self     |-> self]

\* A faulty variant of Extend that puts the new findings in front.  C1 is
\* tested against it.
ExtendInFront(all, findings) == findings \o all

\* A faulty variant of Extend that appends only the findings whose match
\* (type, pattern and text) is not yet in the list.  C12 is tested against
\* it.
ExtendUnique(all, findings) ==
  all \o SelectSeq(findings,
                   LAMBDA f : \A i \in 1..Len(all) :
                     ~(all[i].type = f.type /\ all[i].pattern = f.pattern
                       /\ all[i].text = f.text))

\* all_findings.extend(findings)
Extend(all, findings) == all \o findings

\* A faulty variant of CountType that counts the findings of every
\* category.  C13 is tested against it.
CountTypeAny(findings, type) == Len(findings)

\* len([f for f in findings if f['type'] == type])
CountType(findings, type) == Len(SelectSeq(findings, LAMBDA f : f.type = type))

\* A faulty variant of Slice, s[:n + 1].  C5 is tested against it.
SliceOneMore(s, n) == SubSeq(s, 1, IF Len(s) < n + 1 THEN Len(s) ELSE n + 1)

\* s[:n]
Slice(s, n) == SubSeq(s, 1, IF Len(s) < n THEN Len(s) ELSE n)

Ellipsis == <<".",".",".">>

\* The number of characters of the matched text a row keeps.
TextWidth == 50

\* The number of characters of the context line a row keeps.
ContextWidth == 100

\* The values of the tuple written for a finding, in the order the line
\* written holds them.
SqlValues(finding) ==
  << finding.file,
     finding.line,
     finding.type,
     finding.pattern,
     Slice(finding.text, TextWidth) \o Ellipsis,
     Slice(finding.context, ContextWidth) \o Ellipsis,
     finding.confidence >>

\* ") AS Analysis(...)": the names the statement gives to the positions of
\* a tuple.
AnalysisColumns ==
  << "FilePath", "LineNumber", "PatternType", "PatternName", "MatchedText",
     "ContextLine", "Confidence" >>

\* The value a tuple holds in the column of a name.
Column(row, name) ==
  row.values[CHOOSE c \in 1..Len(AnalysisColumns) : AnalysisColumns[c] = name]

\* A faulty variant of SqlRow that ends every line with a comma.  C14 is
\* tested against it.
SqlRowCommaAlways(finding, i, n) ==
  [values |-> SqlValues(finding), comma |-> ","]

\* The line written for the i-th (from 0) of n findings: the value tuple
\* and what follows it.
SqlRow(finding, i, n) ==
  [values |-> SqlValues(finding),
   comma  |-> IF i < n - 1 THEN "," ELSE ""]

\* '{value}' of the f-string: the value between two quotes, as it is.
Quoted(s) == <<"'">> \o s \o <<"'">>

\* {number} of the f-string: the decimal digits.
RECURSIVE Decimal(_)
Decimal(n) ==
  LET digit == <<"0", "1", "2", "3", "4", "5", "6", "7", "8", "9">>[(n % 10) + 1]
  IN IF n < 10 THEN << digit >> ELSE Decimal(n \div 10) \o << digit >>

\* The text of the line written for a row.  The category and the name of
\* the rule are names of the registry and are written whole, each as one
\* element of the text.
SqlLine(row) ==
  Rep(" ", 8) \o <<"(">>
    \o Quoted(row.values[1]) \o <<",", " ">>
    \o Decimal(row.values[2]) \o <<",", " ">>
    \o Quoted(<< row.values[3] >>) \o <<",", " ">>
    \o Quoted(<< row.values[4] >>) \o <<",", " ">>
    \o Quoted(row.values[5]) \o <<",", " ">>
    \o Quoted(row.values[6]) \o <<",", " ">>
    \o Decimal(row.values[7]) \o <<")">>
    \o (IF row.comma = "" THEN << >> ELSE << row.comma >>) \o <<"\n">>

\* generate_sql_output: the file written.
SqlOutput(findings, now) ==
  [format    |-> "sql",
   generated |-> now,
   total     |-> Len(findings),
   rows      |-> [i \in 1..Len(findings) |-> SqlRow(findings[i], i - 1, Len(findings))],
   sql_count |-> CountType(findings, "SQL"),
   ef_count  |-> CountType(findings, "EntityFramework"),
   ado_count |-> CountType(findings, "ADO.NET")]

\* A faulty variant of JsonOutput that stamps every finding with the time
\* of the run.  C15 is tested against it.
JsonOutputStamped(findings, now) ==
  [format             |-> "json",
   analysis_timestamp |-> now,
   total_findings     |-> Len(findings),
   summary            |-> [sql_statements   |-> CountType(findings, "SQL"),
                           entity_framework |-> CountType(findings, "EntityFramework"),
                           ado_net          |-> CountType(findings, "ADO.NET")],
   findings           |-> [i \in 1..Len(findings) |->
                            [found_at |-> now, finding |-> findings[i]]]]

\* generate_json_output: the document written.
JsonOutput(findings, now) ==
  [format             |-> "json",
   analysis_timestamp |-> now,
   total_findings     |-> Len(findings),
   summary            |-> [sql_statements   |-> CountType(findings, "SQL"),
                           entity_framework |-> CountType(findings, "EntityFramework"),
                           ado_net          |-> CountType(findings, "ADO.NET")],
   findings           |-> findings]

WalkIdle == UNCHANGED << config, walked, files_found, env, db_manager, file_handler >>

\* The file system gives the same answer to open() in a second run over
\* the unchanged tree.
OpensAsBefore(k, opens) == first_run.set => opens = first_run.opened[k]

\* analyze_directory up to its loop: the files are listed and counted.
AnalyzeDirectoryStart ==
  /\ pc = "start"
  /\ cs_files' = RGlob(fs, CsPattern)
  /\ all_findings' = << >>
  /\ idx' = 1
  /\ stdout' = Append(stdout, Message("Found", << >>, Len(cs_files')))
  /\ pc' = "loop"
  /\ UNCHANGED << fs, output, exit_status, analyzer, opened, rescan, first_run >>
  /\ WalkIdle

\* A faulty variant of LoopBody in which what analyze_file prints is lost.
\* C17 is tested against it.
LoopBodyQuiet(cs_file, r) ==
  /\ all_findings' = Extend(all_findings, r.findings)
  /\ stdout' = Append(stdout, Message("Analyzing", PathStr(cs_file), 0))
  /\ analyzer' = r.self

\* print(f"Analyzing: {cs_file}"); findings = self.analyze_file(cs_file);
\* all_findings.extend(findings), r what the call returns and does.
LoopBody(cs_file, r) ==
  /\ all_findings' = Extend(all_findings, r.findings)
  /\ stdout' = Append(stdout, Message("Analyzing", PathStr(cs_file), 0)) \o r.printed
  /\ analyzer' = r.self

\* One turn of the loop of analyze_directory: the file is analyzed and its
\* findings are appended.
AnalyzeDirectoryLoop ==
  /\ pc = "loop"
  /\ idx <= Len(cs_files)
  /\ \E opens \in BOOLEAN :
       /\ OpensAsBefore(idx, opens)
       /\ LoopBody(cs_files[idx], analyze_file(analyzer, cs_files[idx], opens))
       /\ opened' = Append(opened, opens)
  /\ idx' = idx + 1
  /\ UNCHANGED << fs, pc, cs_files, output, exit_status, rescan, first_run >>
  /\ WalkIdle

\* analyze_directory returns and main prints the counts.
MainSummary ==
  /\ pc = "loop"
  /\ idx > Len(cs_files)
  /\ stdout' = stdout \o
       << Message("Total findings", << >>, Len(all_findings)),
          Message("SQL statements", << >>, CountType(all_findings, "SQL")),
          Message("Entity Framework", << >>, CountType(all_findings, "EntityFramework")),
          Message("ADO.NET", << >>, CountType(all_findings, "ADO.NET")) >>
  /\ pc' = "emit"
  /\ UNCHANGED << fs, cs_files, idx, all_findings, output, exit_status,
                  analyzer, opened, rescan, first_run >>
  /\ WalkIdle

\* exit(0 if exit_code >= 0 else 1), exit_code the value main returns.
ExitStatus(exit_code) == IF exit_code >= 0 THEN 0 ELSE 1

\* The status of a process that ends with an uncaught exception.
UncaughtStatus == 1

\* open(output_file, 'w') raises: main has no handler, nothing is written
\* and the interpreter ends the process.
EmitFails ==
  /\ exit_status' = UncaughtStatus
  /\ pc' = "done"
  /\ UNCHANGED << output, stdout >>

\* The file after a write that failed: some beginning of the text of the
\* artifact, not all of it.
Truncated(doc) == [format |-> "truncated", kind |-> doc.format]

\* open(output_file, 'w') has created or emptied the file and a later
\* f.write, json.dump or the closing flush raises OSError (no space, file
\* too large, I/O error): main has no handler, the file keeps what has
\* reached it and the interpreter ends the process.
WriteFails(doc) ==
  /\ output' = Truncated(doc)
  /\ exit_status' = UncaughtStatus
  /\ pc' = "done"
  /\ UNCHANGED stdout

\* The artifact is written and closed; main prints where and returns
\* len(findings).
Written(doc) ==
  /\ output' = doc
  /\ stdout' = Append(stdout, Message("Results written", << >>, 0))
  /\ exit_status' = ExitStatus(Len(all_findings))
  /\ pc' = "done"

\* What open() and the writes of an emitter can do.
EmitOutcomes == {"written", "open fails", "write fails"}

Emit(doc, outcome) ==
  CASE outcome = "written"     -> Written(doc)
    [] outcome = "open fails"  -> EmitFails
    [] outcome = "write fails" -> WriteFails(doc)

\* --format sql: the artifact is written, main returns len(findings) and
\* the process exits; or the destination cannot be opened, or not written
\* to the end.
GenerateSqlOutput ==
  /\ pc = "emit"
  /\ \E now \in Clock, outcome \in EmitOutcomes :
       Emit(SqlOutput(all_findings, now), outcome)
  /\ UNCHANGED << fs, cs_files, idx, all_findings, analyzer, opened, rescan, first_run >>
  /\ WalkIdle

\* --format json: the document is written, main returns len(findings) and
\* the process exits; or the destination cannot be opened, or not written
\* to the end.
GenerateJsonOutput ==
  /\ pc = "emit"
  /\ \E now \in Clock, outcome \in EmitOutcomes :
       Emit(JsonOutput(all_findings, now), outcome)
  /\ UNCHANGED << fs, cs_files, idx, all_findings, analyzer, opened, rescan, first_run >>
  /\ WalkIdle

\* findings = analyzer.analyze_file(cs_files[k]), a second time.
SecondCall(k, r) ==
  /\ rescan' = [k |-> k, findings |-> r.findings]
  /\ stdout' = stdout \o r.printed
  /\ analyzer' = r.self

\* A caller analyzes the file the loop has just analyzed a second time with
\* the same instance, the file unchanged.
AnalyzeFileAgain ==
  /\ pc = "loop"
  /\ idx > 1
  /\ rescan.k # idx - 1
  /\ SecondCall(idx - 1, analyze_file(analyzer, cs_files[idx - 1], opened[idx - 1]))
  /\ UNCHANGED << fs, pc, cs_files, idx, all_findings, output, exit_status,
                  opened, first_run >>
  /\ WalkIdle

NoRun == [set |-> FALSE]

NoRescan == [k |-> 0, findings |-> << >>]

\* After a run that wrote its output the program is run a second time over
\* the unchanged tree: a new process and a new QuickSQLAnalyzer; what the
\* first run produced is kept for the comparison.  The output file and the
\* status of the first process stay as they are until the second run's
\* emit.
MainAgain ==
  /\ pc = "done"
  /\ exit_status = 0
  /\ ~first_run.set
  /\ first_run' = [set |-> TRUE, findings |-> all_findings, output |-> output,
                   opened |-> opened, exit_status |-> exit_status]
  /\ pc' = "start"
  /\ cs_files' = << >>
  /\ idx' = 0
  /\ all_findings' = << >>
  /\ stdout' = << >>
  /\ opened' = << >>
  /\ analyzer' = QuickSQLAnalyzer
  /\ UNCHANGED << fs, output, exit_status, rescan >>
  /\ WalkIdle

(***************************************************************************)
(* sql_analyzer.py: DatabaseManager and the arguments of main.             *)
(***************************************************************************)
\* str.startswith
StartsWith(s, prefix) ==
  Len(prefix) <= Len(s) /\ SubSeq(s, 1, Len(prefix)) = prefix

\* The index of the first occurrence of sep in s at or after start, 0 when
\* there is none (str.find, counted from 1).
RECURSIVE FindStr(_, _, _)
FindStr(s, sep, start) ==
  IF start + Len(sep) - 1 > Len(s) THEN 0
  ELSE IF SubSeq(s, start, start + Len(sep) - 1) = sep THEN start
  ELSE FindStr(s, sep, start + 1)

\* str.split(sep): the pieces between the occurrences of sep, found from
\* left to right without overlap.
RECURSIVE SplitOn(_, _)
SplitOn(s, sep) ==
  LET at == FindStr(s, sep, 1)
  IN IF at = 0 THEN << s >>
     ELSE << SubSeq(s, 1, at - 1) >> \o SplitOn(SubSeq(s, at + Len(sep), Len(s)), sep)

\* '\nGO\n'
GoSeparator == <<"\n", "G", "O", "\n">>

\* '--'
CommentMark == <<"-", "-">>

\* The batches the server accepts and the one it rejects: cursor.execute
\* raises for a batch that holds the statement `bad`.
ServerRejects(batch) == FindStr(batch, <<"b","a","d">>, 1) > 0

\* if batch and not batch.startswith('--')
Runs(batch) == batch # << >> /\ ~StartsWith(batch, CommentMark)

\* The loop of execute_script_file from batch i on: the calls of
\* cursor.execute, each with whether the server accepted the batch.
RECURSIVE ExecuteBatches(_, _)
ExecuteBatches(batches, i) ==
  IF i > Len(batches) THEN << >>
  ELSE LET batch == Strip(batches[i])
       IN (IF Runs(batch)
             THEN << [batch |-> batch, ok |-> ~ServerRejects(batch)] >>
             ELSE << >>)
          \o ExecuteBatches(batches, i + 1)

\* logger.warning(f"Error executing batch: {e}"), one for every call that
\* raised.
BatchWarnings(script, calls) ==
  [k \in 1..Len(SelectSeq(calls, LAMBDA c : ~c.ok)) |->
     Message("Error executing batch", script.name, 0)]

\* DatabaseManager.execute_script_file: the calls made, the lines logged,
\* and whether the method raised.  A script that cannot be opened raises
\* before any batch; after the loop the success line is logged whatever
\* the calls did.
execute_script_file(script) ==
  IF ~script.exists
    THEN [calls  |-> << >>,
          log    |-> << Message("Error executing script file", script.name, 0) >>,
          raised |-> TRUE]
    ELSE LET calls == ExecuteBatches(SplitOn(script.content, GoSeparator), 1)
         IN [calls  |-> [k \in 1..Len(calls) |->
                           [script |-> script.name, batch |-> calls[k].batch,
                            ok |-> calls[k].ok]],
             log    |-> BatchWarnings(script, calls)
                          \o << Message("Successfully executed script", script.name, 0) >>,
             raised |-> FALSE]

\* A --schema-file or --views-file argument that was not given.
NoScript == [given |-> FALSE]

ScriptFile(name, exists, content) ==
  [given |-> TRUE, name |-> name, exists |-> exists, content |-> content]

\* The lines of the scripts of the model.
Q_a1 == <<"a","1">>

Q_a2 == <<"a","2">>

Q_bad == <<"b","a","d">>

Q_comment == <<"-","-","c">>

Q_go == <<"G","O">>

\* The lines joined by newlines, as a script file holds them.
RECURSIVE ScriptText(_)
ScriptText(ls) ==
  IF ls = << >> THEN << >>
  ELSE IF Len(ls) = 1 THEN ls[1]
  ELSE ls[1] \o <<"\n">> \o ScriptText(Tail(ls))

\* The --schema-file arguments of the model: two batches; a batch that
\* begins with a comment line; a batch the server rejects, followed by one
\* it accepts; a batch that is a comment only; a script of one batch and a
\* closing GO line; a file that does not exist.
SchemaFiles ==
  { ScriptFile("plain", TRUE, ScriptText(<< Q_a1, Q_go, Q_a2 >>)),
    ScriptFile("commented", TRUE, ScriptText(<< Q_comment, Q_a1, Q_go, Q_a2 >>)),
    ScriptFile("failing", TRUE, ScriptText(<< Q_bad, Q_go, Q_a2 >>)),
    ScriptFile("comment only", TRUE, ScriptText(<< Q_comment, Q_go, Q_a1 >>)),
    ScriptFile("closed", TRUE, ScriptText(<< Q_a1, Q_go, << >> >>)),
    ScriptFile("missing", FALSE, << >>) }

\* The --views-file arguments of the model.
ViewsFiles == { ScriptFile("views", TRUE, ScriptText(<< Q_a2, Q_go, Q_bad >>)) }

\* main before any DatabaseManager is constructed: whether the constructor
\* was called, whether a connection was attempted, whether it succeeded,
\* and the batches executed.
NoDbManager ==
  [constructed |-> FALSE, attempted |-> FALSE, connected |-> FALSE, executed |-> << >>]

\* What the machine offers to a DatabaseManager: no pyodbc module, a server
\* that refuses the connection, a server that accepts it.
Databases == {"no pyodbc", "unreachable", "up"}

\* DatabaseManager(...): __init__ raises RuntimeError without pyodbc;
\* test_connection logs its result and raises when pyodbc.connect does.
DatabaseManager(database) ==
  CASE database = "no pyodbc" ->
         [db     |-> [NoDbManager EXCEPT !.constructed = TRUE],
          log    |-> << >>,
          raised |-> TRUE]
    [] database = "unreachable" ->
         [db     |-> [NoDbManager EXCEPT !.constructed = TRUE, !.attempted = TRUE],
          log    |-> << Message("Database connection failed", << >>, 0) >>,
          raised |-> TRUE]
    [] database = "up" ->
         [db     |-> [NoDbManager EXCEPT !.constructed = TRUE, !.attempted = TRUE,
                                         !.connected = TRUE],
          log    |-> << Message("Database connection successful", << >>, 0) >>,
          raised |-> FALSE]

\* The arguments of main the model varies.  --server is given together
\* with --database and --windows-auth, so that the two checks of main on
\* them pass; --log-level is INFO, its default.
Arguments(dry_run, connection_string, server, output_file, create_schema, schema_file, views_file, log_file) ==
  [dry_run |-> dry_run, connection_string |-> connection_string, server |-> server,
   output_file |-> output_file, create_schema |-> create_schema,
   schema_file |-> schema_file, views_file |-> views_file, log_file |-> log_file]

\* --directory D --output-file F
DefaultArgs == Arguments(FALSE, FALSE, FALSE, TRUE, FALSE, NoScript, NoScript, FALSE)

\* if not args.connection_string and not args.server and not args.output_file:
\*     parser.error(...)
ValidArgs(args) == args.connection_string \/ args.server \/ args.output_file

\* A faulty variant of ConnectsDatabase: --dry-run is not looked at.  C27 is
\* tested against it.
ConnectsDatabaseDryRun(args) == args.connection_string \/ args.server

\* if not args.dry_run and (args.connection_string or args.server)
ConnectsDatabase(args) == ~args.dry_run /\ (args.connection_string \/ args.server)

\* db_manager.execute_script_file(file) when the file is given, after the
\* steps so far, which are skipped when one of them raised.
ThenScript(sofar, script) ==
  IF sofar.raised \/ ~script.given THEN sofar
  ELSE LET run == execute_script_file(script)
       IN [db     |-> [sofar.db EXCEPT !.executed = @ \o run.calls],
           log    |-> sofar.log \o run.log,
           raised |-> run.raised]

\* The database set-up of main: the manager is constructed unless --dry-run
\* is given or no database is named, and with --create-schema the schema
\* script and the views script are executed.
SetupDatabase(args, database) ==
  IF ~ConnectsDatabase(args)
    THEN [db |-> NoDbManager, log |-> << >>, raised |-> FALSE]
    ELSE LET made == DatabaseManager(database)
         IN IF args.create_schema
              THEN ThenScript(ThenScript(made, args.schema_file), args.views_file)
              ELSE made
(***************************************************************************)
(* sql_analyzer.py: Config and the file walk of main.                      *)
(***************************************************************************)
Range(s) == { s[i] : i \in DOMAIN s }

\* Config.__init__ before any file is loaded.
DefaultConfig ==
  [supported_extensions |->
     << <<".","c","s">>, <<".","v","b">>, <<".","j","s">>, <<".","t","s">>,
        <<".","p","y">>, <<".","s","q","l">>, <<".","c","s","h","t","m","l">>,
        <<".","a","s","p","x">>, <<".","a","s","c","x">> >>,
   exclude_directories |->
     << <<"b","i","n">>, <<"o","b","j">>, <<"p","a","c","k","a","g","e","s">>,
        <<"n","o","d","e","_","m","o","d","u","l","e","s">>, <<".","g","i","t">>,
        <<".","v","s">>, <<"_","_","p","y","c","a","c","h","e","_","_">> >>,
   exclude_files |->
     << <<"*",".","d","e","s","i","g","n","e","r",".","c","s">>,
        <<"*",".","g","e","n","e","r","a","t","e","d",".","c","s">>,
        <<"*",".","g",".","c","s">>,
        <<"*",".","A","s","s","e","m","b","l","y","I","n","f","o",".","c","s">> >>,
   max_file_size             |-> 100 * 1024 * 1024,
   parallel_processing       |-> TRUE,
   max_degree_of_parallelism |-> 4,
   confidence_threshold      |-> 50,
   include_source_snippets   |-> TRUE,
   max_snippet_length        |-> 1000]

\* dict.get(key, default)
Get(d, key, default) == IF key \in DOMAIN d THEN d[key] ELSE default

\* A file json.load cannot parse.
JsonError(data) == "malformed" \in DOMAIN data

\* A file open() refuses, and a JSON value that is not an object, on which
\* .get raises AttributeError.
Unreadable(data) == "unreadable" \in DOMAIN data

NotMapping(value) == "scalar" \in DOMAIN value

\* Whether the try block of load_from_file raises, at any of its
\* statements.
LoadFails(data) ==
  \/ Unreadable(data)
  \/ JsonError(data)
  \/ NotMapping(data)
  \/ NotMapping(Get(data, "AnalysisSettings", << >>))
  \/ NotMapping(Get(data, "OutputSettings", << >>))

\* The six assignments from AnalysisSettings.
LoadAnalysisSettings(self, analysis_settings) ==
  [self EXCEPT
     !.supported_extensions =
        Get(analysis_settings, "SupportedExtensions", self.supported_extensions),
     !.exclude_directories =
        Get(analysis_settings, "ExcludeDirectories", self.exclude_directories),
     !.exclude_files =
        Get(analysis_settings, "ExcludeFiles", self.exclude_files),
     !.max_file_size =
        Get(analysis_settings, "MaxFileSize", self.max_file_size),
     !.parallel_processing =
        Get(analysis_settings, "ParallelProcessing", self.parallel_processing),
     !.max_degree_of_parallelism =
        Get(analysis_settings, "MaxDegreeOfParallelism", self.max_degree_of_parallelism)]

\* The two assignments from OutputSettings.
LoadOutputSettings(self, output_settings) ==
  [self EXCEPT
     !.include_source_snippets =
        Get(output_settings, "IncludeSourceSnippets", self.include_source_snippets),
     !.max_snippet_length =
        Get(output_settings, "MaxSnippetLength", self.max_snippet_length)]

\* Config.load_from_file on a file of content data: the statements of the
\* try block run in order and the handler keeps what was assigned before
\* the one that raised.  open, json.load, config_data.get and the first
\* analysis_settings.get raise before any assignment; the first
\* output_settings.get raises after the six assignments from
\* AnalysisSettings.
load_from_file(self, data) ==
  IF Unreadable(data) \/ JsonError(data) \/ NotMapping(data) THEN self
  ELSE IF NotMapping(Get(data, "AnalysisSettings", << >>)) THEN self
  ELSE LET analysed == LoadAnalysisSettings(self, Get(data, "AnalysisSettings", << >>))
       IN IF NotMapping(Get(data, "OutputSettings", << >>)) THEN analysed
          ELSE LoadOutputSettings(analysed, Get(data, "OutputSettings", << >>))

\* Config(config_file): the defaults, overridden by the file when one is
\* given and exists.
Config(config_file) ==
  IF config_file.exists THEN load_from_file(DefaultConfig, config_file.data)
  ELSE DefaultConfig

\* logging.warning(f"Error loading config file: {e}. Using defaults.")
ConfigWarnings(config_file) ==
  IF config_file.exists /\ LoadFails(config_file.data)
    THEN << Message("Error loading config file", << >>, 0) >>
    ELSE << >>

NoConfigFile == [exists |-> FALSE, data |-> << >>]

\* The --config-file arguments of the model: none, a file that lowers the
\* size ceiling, a file that names its own excluded directories, a file that
\* names an extension without its dot, a file that is not JSON, a directory
\* in the place of the file, a file whose AnalysisSettings is a number, a
\* file whose OutputSettings is a number.
ConfigFiles ==
  { NoConfigFile,
    [exists |-> TRUE, data |-> [malformed |-> TRUE]],
    [exists |-> TRUE, data |-> [unreadable |-> TRUE]],
    [exists |-> TRUE,
     data   |-> [AnalysisSettings |-> [scalar |-> 7],
                 OutputSettings   |-> [MaxSnippetLength |-> 80]]],
    [exists |-> TRUE,
     data   |-> [AnalysisSettings |-> [ExcludeDirectories |-> << D_src >>],
                 OutputSettings   |-> [scalar |-> 7]]],
    [exists |-> TRUE,
     data   |-> [AnalysisSettings |-> [SupportedExtensions |-> << <<"c","s">> >>]]],
    [exists |-> TRUE,
     data   |-> [AnalysisSettings |-> [MaxFileSize |-> 10]]],
    [exists |-> TRUE,
     data   |-> [AnalysisSettings |-> [ExcludeDirectories |-> << D_src >>],
                 OutputSettings   |-> [MaxSnippetLength |-> 80]]] }

\* The --parallel and --max-workers arguments, at their defaults.
ArgParallel == TRUE

ArgMaxWorkers == 4

\* str.endswith
EndsWith(s, suffix) ==
  Len(suffix) <= Len(s) /\ SubSeq(s, Len(s) - Len(suffix) + 1, Len(s)) = suffix

\* dirs[:] = [d for d in dirs if d not in config.exclude_directories]: os.walk
\* never enters a directory with an excluded name, so it lists no file that
\* has one among the directories from the root down to it.
Pruned(f, cfg) ==
  \E i \in 1..Len(f.dir) : f.dir[i] \in Range(cfg.exclude_directories)

\* any(file.endswith(ext) for ext in config.supported_extensions)
IsSupported(name, cfg) ==
  \E i \in 1..Len(cfg.supported_extensions) :
    EndsWith(name, cfg.supported_extensions[i])

QuickIdle == UNCHANGED << cs_files, all_findings, output, analyzer, opened, rescan, first_run >>

\* sys.exit(1) of main's handlers, and the status of parser.error.
FailedStatus == 1

UsageStatus == 2

\* setup_logging: logging.FileHandler(log_file, mode='w') opens the file
\* named by --log-file, and empties it, when the handlers are made.
SetupLogging(args) == IF args.log_file THEN "written" ELSE "absent"

\* main up to the walk: logging is set up, the arguments are checked, the
\* configuration is loaded and the database is set up.  An exception of
\* the set-up is logged by main's handler, which exits with status 1.
MainLoadConfig ==
  /\ pc = "start"
  /\ file_handler' = SetupLogging(env.args)
  /\ IF ~ValidArgs(env.args)
       THEN /\ exit_status' = UsageStatus
            /\ pc' = "done"
            /\ UNCHANGED << config, stdout, db_manager >>
       ELSE LET setup == SetupDatabase(env.args, env.database) IN
            /\ config' = [Config(env.config_file) EXCEPT
                            !.parallel_processing = ArgParallel,
                            !.max_degree_of_parallelism = ArgMaxWorkers]
            /\ db_manager' = setup.db
            /\ IF setup.raised
                 THEN /\ stdout' = stdout \o ConfigWarnings(env.config_file) \o setup.log
                                     \o << Message("Analysis failed", << >>, 0) >>
                      /\ exit_status' = FailedStatus
                      /\ pc' = "done"
                 ELSE /\ stdout' = stdout \o ConfigWarnings(env.config_file) \o setup.log
                      /\ pc' = "walk"
                      /\ UNCHANGED exit_status
  /\ idx' = 1
  /\ files_found' = 0
  /\ walked' = << >>
  /\ UNCHANGED << fs, env >>
  /\ QuickIdle

\* The walk at the next file of the tree: a file of a pruned directory is
\* never listed; a listed file is counted when its name ends with a
\* supported extension.
WalkFile ==
  /\ pc = "walk"
  /\ idx <= Len(fs)
  /\ IF Pruned(fs[idx], config)
       THEN UNCHANGED << walked, files_found >>
       ELSE LET counts == IsSupported(fs[idx].name, config) IN
         /\ walked' = Append(walked, [file |-> fs[idx], counted |-> counts])
         /\ files_found' = IF counts THEN files_found + 1 ELSE files_found
  /\ idx' = idx + 1
  /\ UNCHANGED << fs, pc, stdout, exit_status, config, env, db_manager, file_handler >>
  /\ QuickIdle

\* The lines of the summary on where the results go: nothing is stored or
\* exported by this version, the lines say where the results would go.
SinkLines(args, db) ==
  (IF db.connected /\ ~args.dry_run
     THEN << Message("Results would be stored in database", << >>, 0) >> ELSE << >>)
  \o (IF args.output_file /\ ~args.dry_run
        THEN << Message("Results would be exported to file", << >>, 0) >> ELSE << >>)
  \o (IF args.dry_run
        THEN << Message("Dry run mode - no data was written", << >>, 0) >> ELSE << >>)

\* The walk is over: main prints the summary and returns.
WalkSummary ==
  /\ pc = "walk"
  /\ idx > Len(fs)
  /\ stdout' = stdout \o
       << Message("Analysis completed successfully", << >>, 0),
          Message("Files found", << >>, files_found) >>
       \o SinkLines(env.args, db_manager)
  /\ exit_status' = 0
  /\ pc' = "done"
  /\ UNCHANGED << fs, idx, config, walked, files_found, env, db_manager, file_handler >>
  /\ QuickIdle

\* The files of the trees sql_analyzer walks.
WalkFiles ==
  { File(<< >>, n, c) :
      n \in { N_a_cs, N_B_CS, N_dot_cs, N_designer, N_txt, N_docs },
      c \in { L_select, L_plain } }
  \cup { File(<<D_bin>>, N_a_cs, L_select),
         File(<<D_src>>, N_b_cs, L_select),
         File(<<D_src, D_obj>>, N_b_cs, L_select) }

WalkTrees ==
  { l \in UNION { [1..n -> WalkFiles] : n \in 0..MaxFiles } : ValidListing(l) }

(***************************************************************************)
(* The specifications: a run of quick-sql-analyzer.py (Spec) and a run of  *)
(* sql_analyzer.py (WalkSpec).                                             *)
(***************************************************************************)
NoConfig == [loaded |-> FALSE]

\* What is the same at the start of every run.
Start ==
  /\ pc = "start"
  /\ cs_files = << >>
  /\ idx = 0
  /\ all_findings = << >>
  /\ stdout = << >>
  /\ output = NoOutput
  /\ exit_status = -1
  /\ config = NoConfig
  /\ walked = << >>
  /\ files_found = 0
  /\ opened = << >>
  /\ rescan = NoRescan
  /\ first_run = NoRun
  /\ db_manager = NoDbManager
  /\ file_handler = "absent"

\* --directory names a directory, or a path that does not exist: the
\* listing of a missing root is empty.
Roots(tree) == IF tree = << >> THEN {"directory", "missing"} ELSE {"directory"}

Init ==
  /\ fs \in Trees
  /\ env \in { [root |-> r, config_file |-> NoConfigFile] : r \in Roots(fs) }
  /\ analyzer = QuickSQLAnalyzer
  /\ Start

Next ==
  \/ AnalyzeDirectoryStart
  \/ AnalyzeDirectoryLoop
  \/ MainSummary
  \/ GenerateSqlOutput
  \/ GenerateJsonOutput

Spec == Init /\ [][Next]_vars

\* A run with a second analyze_file call on a file.
RescanNext == Next \/ AnalyzeFileAgain

RescanSpec == Init /\ [][RescanNext]_vars

\* Two runs over one tree.
RerunNext == Next \/ MainAgain

RerunSpec == Init /\ [][RerunNext]_vars

\* A faulty variant of InterruptStatus: the interrupted process ends like a
\* successful one.  C22 is tested against it.
InterruptStatusSuccess(handled) == 0

\* The status of a process ended by KeyboardInterrupt: sys.exit(1) where a
\* handler catches it, the status of a process killed by SIGINT where none
\* does.
InterruptStatus(handled) == IF handled THEN 1 ELSE 130

\* The user interrupts quick-sql-analyzer.py while analyze_directory loops
\* over the files: KeyboardInterrupt is no Exception, so the handler of
\* analyze_file lets it pass, main has no handler, and the interpreter ends
\* the process; the findings collected are lost with it.
QuickInterrupt ==
  /\ pc = "loop"
  /\ pc' = "interrupted"
  /\ exit_status' = InterruptStatus(FALSE)
  /\ UNCHANGED << fs, cs_files, idx, all_findings, stdout, output, analyzer,
                  opened, rescan, first_run >>
  /\ WalkIdle

\* The user interrupts sql_analyzer.py during the walk: except
\* KeyboardInterrupt logs the interruption and calls sys.exit(1).
WalkInterrupt ==
  /\ pc = "walk"
  /\ stdout' = Append(stdout, Message("Analysis interrupted by user", << >>, 0))
  /\ exit_status' = InterruptStatus(TRUE)
  /\ pc' = "interrupted"
  /\ UNCHANGED << fs, idx, config, walked, files_found, env, db_manager, file_handler >>
  /\ QuickIdle

\* A rule whose pattern string re cannot compile, such as '('.
BadRule == [name |-> "BAD", error |-> "missing )"]

\* The instances analyze_directory can be called on: the one the constructor
\* makes, and that one with a malformed rule in one of its registries (the
\* registries are dicts of strings that nothing compiles or checks before
\* the first line of the first file is matched).
Analyzers ==
  { QuickSQLAnalyzer,
    [QuickSQLAnalyzer EXCEPT !.sql_patterns = Append(@, BadRule)],
    [QuickSQLAnalyzer EXCEPT !.ef_patterns = << BadRule >> \o @],
    [QuickSQLAnalyzer EXCEPT !.ado_patterns = Append(@, BadRule)] }

RegistryInit ==
  /\ fs \in Trees
  /\ env \in { [root |-> r, config_file |-> NoConfigFile] : r \in Roots(fs) }
  /\ analyzer \in Analyzers
  /\ Start

\* A run whose registry may hold a malformed rule.
RegistrySpec == RegistryInit /\ [][Next]_vars

\* A run of quick-sql-analyzer.py on a file whose name or text may hold a
\* single quote.
QuoteInit ==
  /\ fs \in QuoteTrees
  /\ env \in { [root |-> r, config_file |-> NoConfigFile] : r \in Roots(fs) }
  /\ analyzer = QuickSQLAnalyzer
  /\ Start

QuoteSpec == QuoteInit /\ [][Next]_vars

\* The values of Config.confidence_threshold of the model: the default and
\* one that lies above the confidence of some of the rules.
Thresholds == { DefaultConfig.confidence_threshold, 90 }

\* The values of Config.max_file_size of the model: the default and one
\* that some files of the trees exceed.
SizeLimits == { DefaultConfig.max_file_size, 20 }

\* A run of quick-sql-analyzer.py with a confidence threshold and a size
\* ceiling configured.  The program reads neither, so the run is the run
\* of Spec.
ConfiguredInit ==
  /\ fs \in Trees
  /\ env \in { [root |-> r, config_file |-> NoConfigFile,
                 confidence_threshold |-> t, max_file_size |-> s] :
                r \in Roots(fs), t \in Thresholds, s \in SizeLimits }
  /\ analyzer = QuickSQLAnalyzer
  /\ Start

ConfiguredSpec == ConfiguredInit /\ [][Next]_vars

\* A run of sql_analyzer.py with --directory and --output-file, and a
\* configuration file or none.
WalkInit ==
  /\ fs \in WalkTrees
  /\ env \in { [root |-> "directory", config_file |-> c, args |-> DefaultArgs,
                 database |-> "up"] : c \in ConfigFiles }
  /\ analyzer = QuickSQLAnalyzer
  /\ Start

WalkNext ==
  \/ MainLoadConfig
  \/ WalkFile
  \/ WalkSummary

WalkSpec == WalkInit /\ [][WalkNext]_vars

\* The arguments of the runs of ArgsSpec.
ArgsOfModel ==
  { Arguments(dry_run, connection = "connection_string", connection = "server",
              output_file, create_schema, schema_file, views_file, log_file) :
      dry_run \in BOOLEAN, connection \in {"none", "connection_string", "server"},
      output_file \in BOOLEAN, create_schema \in BOOLEAN,
      schema_file \in SchemaFiles \cup {NoScript},
      views_file \in ViewsFiles \cup {NoScript}, log_file \in BOOLEAN }

\* A run of sql_analyzer.py with any of the arguments, on a tree of at most
\* one file.
ArgsInit ==
  /\ fs \in { tree \in WalkTrees : Len(tree) <= 1 }
  /\ env \in { [root |-> "directory", config_file |-> NoConfigFile, args |-> a,
                 database |-> d] : a \in ArgsOfModel, d \in Databases }
  /\ analyzer = QuickSQLAnalyzer
  /\ Start

ArgsSpec == ArgsInit /\ [][WalkNext]_vars

\* Either program is run on a tree, and the user may interrupt it.
InterruptInit == Init \/ WalkInit

\* Whether the run is one of sql_analyzer.py, which is given arguments.
RunsWalk == "args" \in DOMAIN env

InterruptNext ==
  \/ ~RunsWalk /\ Next
  \/ RunsWalk /\ WalkNext
  \/ QuickInterrupt
  \/ WalkInterrupt

InterruptSpec == InterruptInit /\ [][InterruptNext]_vars

(***************************************************************************)
(* Definitions the properties are stated with.  They say what a result     *)
(* must be, and are computed otherwise than the code computes it.          *)
(***************************************************************************)
\* The file of the tree a finding's path names.
FileOf(path) == CHOOSE g \in Range(fs) : PathStr(g) = path

\* The place of a finding's file in the order of the traversal.
FileIndex(path) == CHOOSE k \in 1..Len(cs_files) : PathStr(cs_files[k]) = path

CategoryRank(type) ==
  CASE type = "SQL"             -> 1
    [] type = "EntityFramework" -> 2
    [] type = "ADO.NET"         -> 3

Registry(type) ==
  CASE type = "SQL"             -> sql_patterns
    [] type = "EntityFramework" -> ef_patterns
    [] type = "ADO.NET"         -> ado_patterns

\* The place of a rule in the registration order of its category.
RuleRank(type, name) ==
  CHOOSE k \in 1..Len(Registry(type)) : Registry(type)[k].name = name

DiscoveryKey(f) ==
  << FileIndex(f.file), f.line, CategoryRank(f.type), RuleRank(f.type, f.pattern) >>

RECURSIVE LexLeq(_, _)
LexLeq(a, b) ==
  IF a = << >> THEN TRUE
  ELSE IF Head(a) # Head(b) THEN Head(a) < Head(b)
  ELSE LexLeq(Tail(a), Tail(b))

\* The files of cs_files the loop has analyzed without an error.
Scanned ==
  { k \in 1..Len(cs_files) :
      /\ k < idx
      /\ \A m \in 1..Len(stdout) :
           ~(stdout[m].msg = "Error analyzing" /\ stdout[m].file = PathStr(cs_files[k])) }

\* The lines of a text: one more than its newlines, the n-th between the
\* (n-1)-th and the n-th newline.
Newlines(text) == { i \in 1..Len(text) : text[i] = "\n" }

NumLines(text) == 1 + Cardinality(Newlines(text))

NthNewline(text, n) ==
  CHOOSE i \in Newlines(text) : Cardinality({ j \in Newlines(text) : j < i }) = n - 1

NthLine(text, n) ==
  SubSeq(text,
         IF n = 1 THEN 1 ELSE NthNewline(text, n - 1) + 1,
         IF n = NumLines(text) THEN Len(text) ELSE NthNewline(text, n) - 1)

\* A text without the blanks at its ends.
Trimmed(s) ==
  LET solid == { i \in 1..Len(s) : s[i] \notin SpaceChars } IN
    IF solid = {} THEN << >>
    ELSE SubSeq(s, CHOOSE a \in solid : \A i \in solid : a <= i,
                   CHOOSE b \in solid : \A i \in solid : i <= b)

\* Two characters that are the same letter in either case.
SameLetter(a, b) ==
  \/ a = b
  \/ a \in UpperLetters /\ LowerMap[a] = b
  \/ b \in UpperLetters /\ LowerMap[b] = a

ClassHolds(it, ch) ==
  CASE it.k = "lit"   -> SameLetter(it.c, ch)
    [] it.k = "space" -> ch \in SpaceChars
    [] it.k = "word"  -> ch \in WordChars
    [] it.k = "any"   -> ch # "\n"

\* The language of a pattern, as sets of offsets: the offsets where one
\* item may end when it starts at an offset of P.
ItemEnds(it, P, line) ==
  IF it.q = "one"
    THEN { p + 1 : p \in { o \in P : o < Len(line) /\ ClassHolds(it, line[o + 1]) } }
    ELSE LET least == IF it.q = "plus" THEN 1 ELSE 0
         IN { q \in 0..Len(line) :
                \E p \in P : /\ p + least <= q
                             /\ \A x \in (p + 1)..q : ClassHolds(it, line[x]) }

RECURSIVE AltEnds(_, _, _, _)
AltEnds(alt, k, P, line) ==
  IF k > Len(alt) \/ P = {} THEN P
  ELSE AltEnds(alt, k + 1, ItemEnds(alt[k], P, line), line)

\* The offsets e such that line[s..e) is in the language of the pattern.
SpecEnds(pattern, line, s) ==
  UNION { AltEnds(pattern.alts[a], 1, {s}, line) : a \in 1..Len(pattern.alts) }

\* The offsets of line where a match of the pattern starts.
MatchStarts(pattern, line) ==
  { s \in 0..Len(line) : SpecEnds(pattern, line, s) # {} }

\* The texts T[j..] are matches of the pattern found left to right from
\* offset p on: each starts at the first offset where a match starts, is in
\* the language of the pattern, and the next is sought where it ends; after
\* the last no match starts.
RECURSIVE LeftToRight(_, _, _, _, _, _)
LeftToRight(T, j, p, pattern, line, starts) ==
  LET ahead == { s \in starts : s >= p } IN
    IF j > Len(T) THEN ahead = {}
    ELSE /\ ahead # {}
         /\ LET s == CHOOSE a \in ahead : \A b \in ahead : a <= b
                e == s + Len(T[j])
            IN /\ e > s
               /\ e \in SpecEnds(pattern, line, s)
               /\ SubSeq(line, s + 1, e) = T[j]
               /\ LeftToRight(T, j + 1, e, pattern, line, starts)

\* The findings of one file, line and rule, in the order of the run.
FindingsOf(path, n, type, name) ==
  SelectSeq(all_findings,
            LAMBDA f : f.file = path /\ f.line = n /\ f.type = type /\ f.pattern = name)

TextsOf(fseq) == [j \in 1..Len(fseq) |-> fseq[j].text]

\* os.path.splitext(name)[1]: from the last dot on, when a character other
\* than a dot precedes it.
FileExtension(name) ==
  LET dots == { i \in 1..Len(name) : name[i] = "." } IN
    IF dots = {} THEN << >>
    ELSE LET last == CHOOSE i \in dots : \A j \in dots : j <= i IN
      IF \A i \in 1..(last - 1) : name[i] = "." THEN << >>
      ELSE SubSeq(name, last, Len(name))

LowerStr(s) == [i \in 1..Len(s) |-> Lower(s[i])]

\* The three conditions of a candidate file.
IsCandidate(f, cfg) ==
  /\ \E i \in 1..Len(cfg.supported_extensions) :
       LowerStr(FileExtension(f.name)) = LowerStr(cfg.supported_extensions[i])
  /\ \A i \in 1..Len(cfg.exclude_files) : ~FnMatch(f.name, cfg.exclude_files[i])
  /\ FileSize(f) <= cfg.max_file_size

\* A file that lies under a directory with an excluded name.
UnderExcluded(f, names) == \E i \in 1..Len(f.dir) : f.dir[i] \in Range(names)

(***************************************************************************)
(* The properties.                                                         *)
(***************************************************************************)
\* C1: the findings of a run are in discovery order -- by the place of
\* their file in the traversal, then by line number, then by category (SQL,
\* Entity Framework, ADO.NET), then by the registration order of the rule --
\* and the emitters keep that order: the JSON document holds the findings
\* as collected, and the i-th row of the SQL output is of the i-th finding.
C1_DiscoveryOrder ==
  /\ \A i, j \in 1..Len(all_findings) :
       i < j => LexLeq(DiscoveryKey(all_findings[i]), DiscoveryKey(all_findings[j]))
  /\ output.format = "json" => output.findings = all_findings
  /\ output.format = "sql" =>
       /\ Len(output.rows) = Len(all_findings)
       /\ \A i \in 1..Len(all_findings) :
            /\ Column(output.rows[i], "FilePath") = all_findings[i].file
            /\ Column(output.rows[i], "LineNumber") = all_findings[i].line
            /\ Column(output.rows[i], "PatternType") = all_findings[i].type
            /\ Column(output.rows[i], "PatternName") = all_findings[i].pattern

\* A finished run with findings of two files, of two lines of one file, and
\* of two categories on one line.
C1_Witness ==
  /\ pc = "done"
  /\ \E i, j \in 1..Len(all_findings) :
       i < j /\ all_findings[i].file # all_findings[j].file
  /\ \E i, j \in 1..Len(all_findings) :
       /\ i < j
       /\ all_findings[i].file = all_findings[j].file
       /\ all_findings[i].line < all_findings[j].line
  /\ \E i, j \in 1..Len(all_findings) :
       /\ i < j
       /\ all_findings[i].file = all_findings[j].file
       /\ all_findings[i].line = all_findings[j].line
       /\ all_findings[i].type # all_findings[j].type

\* C2: no file under a directory with an excluded name (the names
\* Config.__init__ configures) is among the files the run visits, and no
\* finding references a path inside such a directory.
C2_PruneExcluded ==
  /\ \A k \in 1..Len(cs_files) :
       ~UnderExcluded(cs_files[k], DefaultConfig.exclude_directories)
  /\ \A i \in 1..Len(all_findings) :
       ~UnderExcluded(FileOf(all_findings[i].file), DefaultConfig.exclude_directories)

\* C3: a file the walk lists is counted as a candidate if and only if its
\* extension, compared ignoring case, is a supported extension, its name
\* matches no exclude_files glob, and its size is at most max_file_size.
C3_CandidateIff ==
  \A k \in 1..Len(walked) :
    walked[k].counted <=> IsCandidate(walked[k].file, config)

\* C4: a file whose extension is not in supported_extensions is never
\* counted by the walk.
C4_OnlySupportedExtensions ==
  \A k \in 1..Len(walked) :
    walked[k].counted =>
      FileExtension(walked[k].file.name) \in Range(config.supported_extensions)

\* C5: in the SQL output, a matched text longer than 50 characters is
\* emitted as its first 50 characters followed by "...", and a context line
\* longer than 100 characters as its first 100 characters followed by "...".
C5_Truncation ==
  output.format = "sql" =>
    \A i \in 1..Len(all_findings) :
      /\ Len(all_findings[i].text) > 50 =>
           Column(output.rows[i], "MatchedText")
             = SubSeq(all_findings[i].text, 1, 50) \o <<".",".",".">>
      /\ Len(all_findings[i].context) > 100 =>
           Column(output.rows[i], "ContextLine")
             = SubSeq(all_findings[i].context, 1, 100) \o <<".",".",".">>

\* A SQL output of a finding whose text is longer than 50 characters and of
\* one whose context is longer than 100.
C5_Witness ==
  /\ output.format = "sql"
  /\ \E i \in 1..Len(all_findings) : Len(all_findings[i].text) > 50
  /\ \E i \in 1..Len(all_findings) : Len(all_findings[i].context) > 100

\* C6: in the SQL output, a matched text of at most 50 characters and a
\* context line of at most 100 characters are emitted in full, with no
\* ellipsis marker after them.
C6_EllipsisOnlyWhenTruncated ==
  output.format = "sql" =>
    \A i \in 1..Len(all_findings) :
      /\ Len(all_findings[i].text) <= 50 =>
           Column(output.rows[i], "MatchedText") = all_findings[i].text
      /\ Len(all_findings[i].context) <= 100 =>
           Column(output.rows[i], "ContextLine") = all_findings[i].context

\* C7: the line number n of a finding is at least 1 and at most the number
\* of lines of its file's content as read, split at the newlines, and its
\* context is the n-th of these lines without the blanks at its ends.
C7_LineNumbers ==
  \A i \in 1..Len(all_findings) :
    LET f    == all_findings[i]
        text == ReadText(FileOf(f.file).content)
    IN /\ f.line >= 1
       /\ f.line <= NumLines(text)
       /\ f.context = Trimmed(NthLine(text, f.line))

\* A finding of a second line whose context is shorter than the line.
C7_Witness ==
  \E i \in 1..Len(all_findings) :
    /\ all_findings[i].line = 2
    /\ Len(all_findings[i].context)
         < Len(NthLine(ReadText(FileOf(all_findings[i].file).content), 2))

\* C8: the confidence of a finding is an integer of 0..100 that its
\* category alone decides: 90 for SQL, 95 for Entity Framework, 85 for
\* ADO.NET.
C8_Confidence ==
  \A i \in 1..Len(all_findings) :
    LET f == all_findings[i] IN
      /\ f.confidence \in 0..100
      /\ f.type \in {"SQL", "EntityFramework", "ADO.NET"}
      /\ f.type = "SQL" => f.confidence = 90
      /\ f.type = "EntityFramework" => f.confidence = 95
      /\ f.type = "ADO.NET" => f.confidence = 85

\* Findings of the three categories, two of one category with texts of
\* different lengths.
C8_Witness ==
  /\ \A t \in {"SQL", "EntityFramework", "ADO.NET"} :
       \E i \in 1..Len(all_findings) : all_findings[i].type = t
  /\ \E i, j \in 1..Len(all_findings) :
       /\ all_findings[i].type = all_findings[j].type
       /\ Len(all_findings[i].text) # Len(all_findings[j].text)

\* The lines of the file the loop has just analyzed, when it was read.
JustScanned == pc = "loop" /\ idx > 1 /\ (idx - 1) \in Scanned

LastFile == cs_files[idx - 1]

LastLines == SplitLines(ReadText(LastFile.content))

\* C9: for every line of a scanned file in which a SQL rule has a match, in
\* any letter case, the scan yields a finding of that line with category
\* SQL, the name of the rule and the confidence 90.
C9_SqlRuleFires ==
  JustScanned =>
    \A n \in 1..Len(LastLines) : \A r \in 1..Len(sql_patterns) :
      MatchStarts(sql_patterns[r], LastLines[n]) # {} =>
        \E i \in 1..Len(all_findings) :
          /\ all_findings[i].file = PathStr(LastFile)
          /\ all_findings[i].line = n
          /\ all_findings[i].type = "SQL"
          /\ all_findings[i].pattern = sql_patterns[r].name
          /\ all_findings[i].confidence = 90

\* A scanned line with a SQL statement in lower case, and its finding.
C9_Witness ==
  /\ JustScanned
  /\ \E n \in 1..Len(LastLines) :
       /\ MatchStarts(sql_patterns[1], LastLines[n]) # {}
       /\ \E x \in 1..Len(LastLines[n]) : LastLines[n][x] \in LowerLetters
       /\ \A x \in 1..Len(LastLines[n]) : LastLines[n][x] \notin UpperLetters
       /\ FindingsOf(PathStr(LastFile), n, "SQL", "SELECT") # << >>

\* C10: for every line and rule, the findings are the matches of the rule
\* found left to right without overlap: each finding's text is a match that
\* starts at the first offset, from the end of the previous one, where a
\* match starts, and after the last finding no match is left; so k matches
\* give k findings, in order, and no span gives two.
C10_OneFindingPerMatch ==
  JustScanned =>
    \A n \in 1..Len(LastLines) :
      \A type \in {"SQL", "EntityFramework", "ADO.NET"} :
        \A r \in 1..Len(Registry(type)) :
          LeftToRight(TextsOf(FindingsOf(PathStr(LastFile), n, type, Registry(type)[r].name)),
                      1, 0, Registry(type)[r], LastLines[n],
                      MatchStarts(Registry(type)[r], LastLines[n]))

\* A scanned line with two findings of one rule, of different texts.
C10_Witness ==
  /\ JustScanned
  /\ \E n \in 1..Len(LastLines) :
       LET fs2 == FindingsOf(PathStr(LastFile), n, "SQL", "STORED_PROC_CALL") IN
         Len(fs2) = 2 /\ fs2[1].text # fs2[2].text

(***************************************************************************)
(* Independence of the rules, aggregation and the two emitters.            *)
(***************************************************************************)
\* The texts a rule finds on a line when it is the only rule applied.
TextsAt(line, matches) == [j \in 1..Len(matches) |-> Group(line, matches[j])]

AloneTexts(rule, line) == TextsAt(line, Matches(rule, line))

\* Two matches that share a character of the line.
Overlap(m1, m2) == m1.s < m2.e /\ m2.s < m1.e

Categories == {"SQL", "EntityFramework", "ADO.NET"}

\* C11: rules are applied independently: for every scanned line and every
\* rule of every category, the findings of the rule on the line are the
\* matches the rule finds when it alone is applied to the line, whatever the
\* other rules match there, also on the same characters.
C11_RulesIndependent ==
  JustScanned =>
    \A n \in 1..Len(LastLines) : \A type \in Categories :
      \A r \in 1..Len(Registry(type)) :
        TextsOf(FindingsOf(PathStr(LastFile), n, type, Registry(type)[r].name))
          = AloneTexts(Registry(type)[r], LastLines[n])

\* A scanned line on which two rules of one category match overlapping
\* text and two rules of different categories match, each with its finding.
C11_Witness ==
  /\ JustScanned
  /\ \E n \in 1..Len(LastLines) :
       \E r1, r2 \in 1..Len(ef_patterns) :
         /\ r1 # r2
         /\ \E j1 \in 1..Len(Matches(ef_patterns[r1], LastLines[n])) :
              \E j2 \in 1..Len(Matches(ef_patterns[r2], LastLines[n])) :
                Overlap(Matches(ef_patterns[r1], LastLines[n])[j1],
                        Matches(ef_patterns[r2], LastLines[n])[j2])
         /\ FindingsOf(PathStr(LastFile), n, "EntityFramework", ef_patterns[r1].name) # << >>
         /\ FindingsOf(PathStr(LastFile), n, "EntityFramework", ef_patterns[r2].name) # << >>
  /\ \E i, j \in 1..Len(all_findings) :
       /\ all_findings[i].file = all_findings[j].file
       /\ all_findings[i].line = all_findings[j].line
       /\ all_findings[i].type = "SQL"
       /\ all_findings[j].type = "ADO.NET"

\* What analyze_file returns for the k-th file of the traversal.
PerFile(k) ==
  IF opened[k]
    THEN ScanContent(analyzer, PathStr(cs_files[k]), cs_files[k].content)
    ELSE << >>

\* The first n of a sequence of sequences, joined.
RECURSIVE Joined(_, _)
Joined(pieces, n) == IF n = 0 THEN << >> ELSE Joined(pieces, n - 1) \o pieces[n]

\* The lengths of the first n of a sequence of sequences, added.
RECURSIVE SumLen(_, _)
SumLen(pieces, n) == IF n = 0 THEN 0 ELSE SumLen(pieces, n - 1) + Len(pieces[n])

\* Whether the findings collected are the pieces joined, none merged.
Collected(pieces) ==
  /\ all_findings = Joined(pieces, Len(pieces))
  /\ Len(all_findings) = SumLen(pieces, Len(pieces))

\* Two findings that differ in nothing but the place they were found at.
SameMatch(f, g) ==
  /\ f.type = g.type
  /\ f.pattern = g.pattern
  /\ f.text = g.text
  /\ f.context = g.context

\* C12: aggregation never deduplicates: at every point of the loop of
\* analyze_directory, its end included, the findings collected are the
\* concatenation, in traversal order, of the sequences analyze_file
\* returned for the files analyzed so far, and their number is the sum of
\* the lengths of these sequences.
C12_NoDeduplication ==
  pc = "loop" => Collected([k \in 1..(idx - 1) |-> PerFile(k)])

\* A finished run with the same match in two files and on two lines of one
\* file, each a finding of its own.
C12_Witness ==
  /\ pc = "done"
  /\ \E i, j \in 1..Len(all_findings) :
       /\ i # j
       /\ SameMatch(all_findings[i], all_findings[j])
       /\ all_findings[i].file # all_findings[j].file
  /\ \E i, j \in 1..Len(all_findings) :
       /\ i # j
       /\ SameMatch(all_findings[i], all_findings[j])
       /\ all_findings[i].file = all_findings[j].file
       /\ all_findings[i].line # all_findings[j].line

\* The positions of the findings of a category.
OfType(findings, type) == { i \in 1..Len(findings) : findings[i].type = type }

\* C13: the JSON document written has total_findings equal to the number of
\* findings of the run, each entry of summary equal to the number of
\* findings of its category, the three entries adding up to total_findings,
\* and findings equal to the run's findings, in order and content.
C13_JsonDocument ==
  (pc = "done" /\ output.format = "json") =>
    /\ output.total_findings = Len(output.findings)
    /\ output.summary.sql_statements = Cardinality(OfType(all_findings, "SQL"))
    /\ output.summary.entity_framework =
         Cardinality(OfType(all_findings, "EntityFramework"))
    /\ output.summary.ado_net = Cardinality(OfType(all_findings, "ADO.NET"))
    /\ output.summary.sql_statements + output.summary.entity_framework
         + output.summary.ado_net = output.total_findings
    /\ output.findings = all_findings

\* A JSON document of a run with findings of every category, not equally
\* many of each.
C13_Witness ==
  /\ pc = "done"
  /\ output.format = "json"
  /\ output.summary.sql_statements > 0
  /\ output.summary.entity_framework > 0
  /\ output.summary.ado_net > 0
  /\ output.summary.sql_statements # output.summary.entity_framework

\* What the tuple of a finding holds at each position, first to last.
TupleHolds(values, finding) ==
  /\ Len(values) = 7
  /\ values[1] = finding.file
  /\ values[2] = finding.line
  /\ values[3] = finding.type
  /\ values[4] = finding.pattern
  /\ \E n \in 0..Len(finding.text) :
       values[5] = SubSeq(finding.text, 1, n) \o Ellipsis
  /\ \E n \in 0..Len(finding.context) :
       values[6] = SubSeq(finding.context, 1, n) \o Ellipsis
  /\ values[7] = finding.confidence

\* C14: the SQL output holds one value tuple per finding, in the order of
\* the findings, the values of each tuple in the order FilePath, LineNumber,
\* PatternType, PatternName, MatchedText, ContextLine, Confidence, a comma
\* after every tuple but the last; with no findings it holds no tuple.
C14_SqlTuples ==
  (pc = "done" /\ output.format = "sql") =>
    /\ AnalysisColumns =
         << "FilePath", "LineNumber", "PatternType", "PatternName",
            "MatchedText", "ContextLine", "Confidence" >>
    /\ Len(output.rows) = Len(all_findings)
    /\ \A i \in 1..Len(output.rows) :
         /\ TupleHolds(output.rows[i].values, all_findings[i])
         /\ output.rows[i].comma = IF i < Len(output.rows) THEN "," ELSE ""

\* An SQL output of three or more tuples, of findings that differ in file,
\* category and line.
C14_Witness ==
  /\ pc = "done"
  /\ output.format = "sql"
  /\ Len(output.rows) >= 3
  /\ \E i, j \in 1..Len(output.rows) :
       /\ i < j
       /\ Column(output.rows[i], "FilePath") # Column(output.rows[j], "FilePath")
       /\ Column(output.rows[i], "PatternType") # Column(output.rows[j], "PatternType")
       /\ Column(output.rows[i], "LineNumber") # Column(output.rows[j], "LineNumber")

\* The fields of an output that hold the time of its generation.
Timestamps == {"generated", "analysis_timestamp"}

\* An output without the time of its generation.
Untimed(out) == [f \in DOMAIN out \ Timestamps |-> out[f]]

\* Whether the run that has just ended and the run before it both wrote
\* their output, in the same format.
BothEmitted ==
  /\ exit_status = 0
  /\ first_run.exit_status = 0
  /\ output.format = first_run.output.format

FirstScan(k) ==
  SelectSeq(all_findings, LAMBDA f : f.file = PathStr(cs_files[k]))

\* C16: a second call of analyze_file on an unchanged file with the same
\* instance returns the findings the first call returned, and the calls
\* leave the instance (its three registries and its results list) as the
\* constructor made it.
C16_RescanIdempotent ==
  /\ pc \in {"loop", "emit", "done"} => analyzer = QuickSQLAnalyzer
  /\ rescan.k > 0 => rescan.findings = FirstScan(rescan.k)

\* The second file of a run has been analyzed a second time, after the first
\* file yielded findings, and the second call returned several findings.
C16_Witness ==
  /\ rescan.k = 2
  /\ Len(rescan.findings) >= 2
  /\ FirstScan(1) # << >>

\* Whether a message that the file could not be analyzed, with the error
\* that open() or read() raised, has been printed.
ReportedUnreadable(file) ==
  \E m \in 1..Len(stdout) :
    /\ stdout[m].msg = "Error analyzing"
    /\ stdout[m].file = file
    /\ stdout[m].e = "OSError"

\* C17: a file that does not open or read contributes no finding and is
\* reported by a message with its path and the error; the files after it
\* are analyzed all the same: at every point of the loop every file after
\* it that opened has its findings among those collected, and the loop ends
\* only after the last file listed.
C17_UnreadableSkipped ==
  pc \in {"loop", "emit", "done"} =>
    /\ \A k \in 1..(idx - 1) :
         ~opened[k] => /\ FirstScan(k) = << >>
                       /\ ReportedUnreadable(PathStr(cs_files[k]))
    /\ pc = "loop" =>
         \A k \in 1..(idx - 1) :
           (opened[k] /\ \E j \in 1..(k - 1) : ~opened[j]) =>
             FirstScan(k) =
               ScanContent(QuickSQLAnalyzer, PathStr(cs_files[k]), cs_files[k].content)
    /\ pc \in {"emit", "done"} => Len(opened) = Len(cs_files)

\* A finished run whose first file held a statement but did not open, and
\* whose second file has findings.
C17_Witness ==
  /\ pc = "done"
  /\ Len(cs_files) = 2
  /\ ~opened[1]
  /\ ScanContent(QuickSQLAnalyzer, PathStr(cs_files[1]), cs_files[1].content) # << >>
  /\ opened[2]
  /\ FirstScan(2) # << >>

\* Whether the run was started with a configuration file that is not JSON.
MalformedConfig == env.config_file.exists /\ JsonError(env.config_file.data)

\* C18: with a malformed configuration file the process walks no file and,
\* once it has ended, has a status other than 0.
C18_ConfigErrorFatal ==
  MalformedConfig =>
    /\ walked = << >>
    /\ files_found = 0
    /\ pc = "done" => exit_status # 0

\* Whether a message that a file could not be analyzed because of a
\* pattern has been printed.
ReportedPerFile ==
  \E m \in 1..Len(stdout) :
    stdout[m].msg = "Error analyzing" /\ stdout[m].e = "re.error"

C20_ExitStatus ==
  pc = "done" =>
    /\ exit_status = 0 <=> output.format \in {"sql", "json"}
    /\ env.root = "missing" => exit_status # 0

\* C21: the destination never holds the beginning of an artifact only: an
\* emit call leaves the complete artifact there or leaves the destination
\* as it was.
C21_EmitAtomic == output.format # "truncated"

\* The messages of a run that ended as a success.
SuccessMessages == {"Results written", "Analysis completed successfully"}

\* C22: once a run is interrupted during the walk or the scan, the program
\* takes no further step (no file is analyzed or counted any more), its
\* status is not 0, no output has been written, and no message of a
\* successful end has been printed.
C22_Interrupted ==
  pc = "interrupted" =>
    /\ ~ENABLED InterruptNext
    /\ exit_status # 0
    /\ output = NoOutput
    /\ \A m \in 1..Len(stdout) : stdout[m].msg \notin SuccessMessages

\* An interrupted scan that had collected findings and had files left.
C22_Witness ==
  /\ pc = "interrupted"
  /\ all_findings # << >>
  /\ idx <= Len(cs_files)

\* Whether a message with a count has been printed.
Printed(msg, n) ==
  \E m \in 1..Len(stdout) : stdout[m].msg = msg /\ stdout[m].n = n

\* The files whose scan raised an error.
Skipped == { k \in 1..Len(opened) : ~opened[k] }

\* C23: a run that has reached its summary has printed the number of
\* findings of every category and the number of files skipped because of
\* an error.
C23_SummaryCounts ==
  pc \in {"emit", "done"} =>
    /\ Printed("SQL statements", Cardinality(OfType(all_findings, "SQL")))
    /\ Printed("Entity Framework", Cardinality(OfType(all_findings, "EntityFramework")))
    /\ Printed("ADO.NET", Cardinality(OfType(all_findings, "ADO.NET")))
    /\ Printed("Files skipped", Cardinality(Skipped))

\* The confidences of the findings an artifact holds.
EmittedConfidences ==
  CASE output.format = "json" ->
         { output.findings[i].confidence : i \in 1..Len(output.findings) }
    [] output.format = "sql" ->
         { Column(output.rows[i], "Confidence") : i \in 1..Len(output.rows) }
    [] OTHER -> {}

\* C24: no finding with a confidence below the configured threshold is in
\* an emitted artifact.
C24_ThresholdApplied ==
  \A c \in EmittedConfidences : c >= env.confidence_threshold

\* Whether a file is empty or larger than the configured ceiling.
EmptyOrOversize(f) == FileSize(f) = 0 \/ FileSize(f) > env.max_file_size

\* Whether the file has been recorded as skipped.
RecordedSkipped(file) ==
  \E m \in 1..Len(stdout) : stdout[m].msg = "Skipped" /\ stdout[m].file = file

\* C25: a file of 0 bytes and a file larger than max_file_size contribute
\* no finding and are recorded as skipped, and the run goes on to its end.
C25_EmptyAndOversizeSkipped ==
  /\ \A k \in 1..(idx - 1) :
       EmptyOrOversize(cs_files[k]) =>
         /\ FirstScan(k) = << >>
         /\ RecordedSkipped(PathStr(cs_files[k]))
  /\ pc \in {"emit", "done"} => Len(opened) = Len(cs_files)

\* Whether a line with the text msg has been printed or logged.
Logged(msg) == \E m \in 1..Len(stdout) : stdout[m].msg = msg

ConfigOfDefaults ==
  [DefaultConfig EXCEPT !.parallel_processing = ArgParallel,
                        !.max_degree_of_parallelism = ArgMaxWorkers]

\* C28: load_from_file is all-or-nothing: when loading failed, which the
\* `Using defaults` warning reports, every field of the configuration has
\* the value it had before the call.
C28_LoadAllOrNothing ==
  Logged("Error loading config file") => config = ConfigOfDefaults

\* The places of the single quotes of a text.
QuotePlaces(text) == { k \in 1..Len(text) : text[k] = "'" }

\* The places of a text that lie outside every string literal: a quote
\* opens or closes a literal, so a place is outside when the number of
\* quotes before it is even (a doubled quote closes and opens again).
OutsidePlaces(text, quotes) ==
  { i \in 1..Len(text) :
      i \notin quotes /\ Cardinality({ k \in quotes : k < i }) % 2 = 0 }

\* The characters at a set of places, in the order of the text.
TextAt(text, places) ==
  [j \in 1..Cardinality(places) |->
     text[CHOOSE i \in places : Cardinality({ k \in places : k <= i }) = j]]

\* What a well-formed row of seven fields of a finding shows outside its
\* string literals: the parentheses, the separators and the two numbers.
RowFrame(row) ==
  Rep(" ", 8) \o <<"(", ",", " ">> \o Decimal(Column(row, "LineNumber"))
    \o <<",", " ", ",", " ", ",", " ", ",", " ", ",", " ">>
    \o Decimal(Column(row, "Confidence")) \o <<")">>
    \o (IF row.comma = "" THEN << >> ELSE << row.comma >>) \o <<"\n">>

\* The number of single quotes in the three values taken from the files.
QuotesOfSource(row) ==
  Cardinality(QuotePlaces(Column(row, "FilePath")))
    + Cardinality(QuotePlaces(Column(row, "MatchedText")))
    + Cardinality(QuotePlaces(Column(row, "ContextLine")))

\* Whether the line is a row of seven fields, five of them string
\* literals, with every quote of the source doubled.
WellFormedRow(row, text) ==
  /\ TextAt(text, OutsidePlaces(text, QuotePlaces(text))) = RowFrame(row)
  /\ Cardinality(QuotePlaces(text)) = 10 + 2 * QuotesOfSource(row)

\* C29: every line written for a finding in the SQL output is a
\* well-formed row of seven fields: a single quote of the file path, the
\* matched text or the context line is escaped, and no character of these
\* values lies outside a string literal.
C29_RowsWellFormed ==
  output.format = "sql" =>
    \A i \in 1..Len(output.rows) : WellFormedRow(output.rows[i], SqlLine(output.rows[i]))


\* The GO lines of a script, and the marks between which its batches lie:
\* before the first line, the GO lines, after the last line.
GoLines(text) ==
  { n \in 1..NumLines(text) : Trimmed(NthLine(text, n)) = <<"G", "O">> }

BatchMarks(text) == {0} \cup GoLines(text) \cup {NumLines(text) + 1}

\* The mark that follows a mark.
NextMark(text, a) ==
  CHOOSE b \in BatchMarks(text) :
    a < b /\ \A c \in BatchMarks(text) : a < c => b <= c

\* A line that is a statement: neither blank nor a comment.
IsStatement(line) ==
  /\ Trimmed(line) # << >>
  /\ ~(Len(Trimmed(line)) >= 2 /\ SubSeq(Trimmed(line), 1, 2) = <<"-", "-">>)

\* The marks after which a batch with a statement begins.
StatementMarks(text) ==
  { a \in BatchMarks(text) \ {NumLines(text) + 1} :
      \E n \in (a + 1)..(NextMark(text, a) - 1) : IsStatement(NthLine(text, n)) }

\* The text of the lines from one to another, without the blanks at its
\* ends.
LinesText(text, from, to) ==
  Trimmed(SubSeq(text,
                 IF from = 1 THEN 1 ELSE NthNewline(text, from - 1) + 1,
                 IF to = NumLines(text) THEN Len(text) ELSE NthNewline(text, to) - 1))

\* The batches of a script that hold a statement, in file order.
StatementBatches(text) ==
  [j \in 1..Cardinality(StatementMarks(text)) |->
     LET a == CHOOSE m \in StatementMarks(text) :
                Cardinality({ k \in StatementMarks(text) : k <= m }) = j
     IN LinesText(text, a + 1, NextMark(text, a) - 1)]

\* The calls of cursor.execute made for a script, in the order made.
CallsOf(script) == SelectSeq(db_manager.executed, LAMBDA c : c.script = script.name)

\* Whether execute_script_file has been called on the script and could
\* open it.
Executed(script) ==
  /\ script.given
  /\ script.exists
  /\ \E m \in 1..Len(stdout) :
       /\ stdout[m].file = script.name
       /\ stdout[m].msg \in {"Successfully executed script", "Error executing batch"}

\* Whether the script has been reported as successfully executed.
ReportedExecuted(script) ==
  \E m \in 1..Len(stdout) :
    stdout[m].file = script.name /\ stdout[m].msg = "Successfully executed script"

\* C30: execute_script_file executes the batches of the script that hold a
\* statement, each once and in file order, whether or not a batch begins
\* with a comment and whether or not an earlier batch failed, and reports
\* the script as successfully executed only if no batch failed.
C30_ScriptBatches ==
  \A script \in {env.args.schema_file, env.args.views_file} :
    Executed(script) =>
      /\ [k \in 1..Len(CallsOf(script)) |-> CallsOf(script)[k].batch]
           = StatementBatches(script.content)
      /\ ReportedExecuted(script) => \A k \in 1..Len(CallsOf(script)) : CallsOf(script)[k].ok
====
